---- MODULE Spec2Model ----
(***************************************************************************)
(* COMBINE/OMEX archive and manifest subsystem of biosimulators_simularium *)
(* (archives/data_model.py, utils/core.py).                                *)
(*                                                                         *)
(* Representation of Python values:                                        *)
(*   - an optional value is a sequence of length 0 (None) or 1 (the value) *)
(*   - a string that is compared with < is a sequence of character codes   *)
(*   - a file name is a sequence of atoms (substrings); the atoms ".omex", *)
(*     "manifest" and "_UNZIPPED" are the substrings the code looks for    *)
(*   - a path is a sequence of file names (os.sep joins them)              *)
(***************************************************************************)
EXTENDS Integers, Sequences, FiniteSets, TLC

VARIABLES
    mA,        \* first manifest of the manifest-model harness (list of CombineArchiveContent)
    mB,        \* second manifest of the harness
    mPath,     \* the manifest file written by the harness (file content or NoFile)
    mOp,       \* last operation the harness applied
    mRes,      \* value the last operation returned
    fs,        \* the regular files of the filesystem: path -> content
    dirs,      \* the directories of the filesystem: set of paths
    svc,       \* the SpatialCombineArchive instances: their attributes and the call in progress
    hist,      \* the manifest reads and writes of add_file_to_manifest, in the order they happened
    last,      \* the latest call on an instance: which instance, which method, how it ended, what it returned
    calls      \* the format resolutions made so far: the identifier given and the name returned

mvars == <<mA, mB, mPath, mOp, mRes>>

avars == <<fs, dirs, svc, hist, last>>

rvars == <<calls>>

vars == <<mA, mB, mPath, mOp, mRes, fs, dirs, svc, hist, last, calls>>

(***************************************************************************)
(* Bounds                                                                  *)
(***************************************************************************)
MaxContents == 2

\* add_file_to_manifest calls started, over all instances
MaxAdds == 2

\* format resolutions made
MaxCalls == 2

(***************************************************************************)
(* Python values                                                           *)
(***************************************************************************)
None == <<>>

Some(x) == <<x>>

NoFile == [kind |-> "absent", contents |-> <<>>]

NoResult == [tag |-> "none", val |-> <<>>]

\* Python's < on str: lexicographic on code points, a proper prefix is smaller
RECURSIVE str_lt(_, _)
str_lt(x, y) ==
    IF y = <<>> THEN FALSE
    ELSE IF x = <<>> THEN TRUE
    ELSE IF Head(x) < Head(y) THEN TRUE
    ELSE IF Head(x) > Head(y) THEN FALSE
    ELSE str_lt(Tail(x), Tail(y))

\* Python's < on bool: False < True
bool_lt(x, y) == (~x) /\ y

(***************************************************************************)
(* utils/core.py: none_comparator, none_sorted, are_lists_equal            *)
(***************************************************************************)
\* x < y on two values of the type ("str" or "bool")
value_lt(x, y, type) == IF type = "bool" THEN bool_lt(x, y) ELSE str_lt(x, y)

\* none_comparator on two non-tuple values, had the tests for None been made
\* the other way round (None after every value)
none_comparator_scalar_none_last(x, y, type) ==
    IF x = y THEN 0
    ELSE IF x = None THEN 1
    ELSE IF y = None THEN -1
    ELSE IF value_lt(x[1], y[1], type) THEN -1
    ELSE IF value_lt(y[1], x[1], type) THEN 1
    ELSE 2

\* none_comparator on two non-tuple values x, y (optionals) of the type
none_comparator_scalar(x, y, type) ==
    IF x = y THEN 0
    ELSE IF x = None THEN -1
    ELSE IF y = None THEN 1
    ELSE IF value_lt(x[1], y[1], type) THEN -1
    ELSE IF value_lt(y[1], x[1], type) THEN 1
    ELSE 2   \* falls off the end of the function: Python returns None

\* none_comparator, had the loop over the components stopped after the first
none_comparator_first_component(x, y) ==
    IF x = y THEN 0
    ELSE IF Len(x) < Len(y) THEN -1
    ELSE IF Len(x) > Len(y) THEN 1
    ELSE none_comparator_scalar(x[1], y[1], "str")

\* none_comparator on two to_tuple() keys (location, format, master)
none_comparator(x, y) ==
    IF x = y THEN 0
    ELSE IF Len(x) < Len(y) THEN -1
    ELSE IF Len(x) > Len(y) THEN 1
    ELSE LET c1 == none_comparator_scalar(x[1], y[1], "str")
             c2 == none_comparator_scalar(x[2], y[2], "str")
             c3 == none_comparator_scalar(x[3], y[3], "bool")
         IN IF c1 # 0 THEN c1 ELSE IF c2 # 0 THEN c2 ELSE IF c3 # 0 THEN c3 ELSE 0

\* CombineArchiveContent.to_tuple
to_tuple(content) == <<content.location, content.format, content.master>>

\* NoneComparator.__lt__ of the key class none_sort_key_gen(key) builds
key_lt(a, b) == none_comparator(to_tuple(a), to_tuple(b)) < 0

\* sorted() is stable: x goes before the first element that is greater than x
RECURSIVE insert_sorted(_, _)
insert_sorted(x, s) ==
    IF s = <<>> THEN <<x>>
    ELSE IF key_lt(x, Head(s)) THEN <<x>> \o s
    ELSE <<Head(s)>> \o insert_sorted(x, Tail(s))

\* none_sorted(arr, key=lambda x: x.to_tuple())
RECURSIVE none_sorted(_)
none_sorted(arr) ==
    IF arr = <<>> THEN <<>>
    ELSE insert_sorted(arr[Len(arr)], none_sorted(SubSeq(arr, 1, Len(arr) - 1)))

\* sorted() on the tuples themselves: x goes before the first tuple that is
\* greater than x
RECURSIVE insert_sorted_tuple(_, _)
insert_sorted_tuple(x, s) ==
    IF s = <<>> THEN <<x>>
    ELSE IF none_comparator(x, Head(s)) < 0 THEN <<x>> \o s
    ELSE <<Head(s)>> \o insert_sorted_tuple(x, Tail(s))

\* none_sorted(arr) without a key, on tuples
RECURSIVE none_sorted_tuples(_)
none_sorted_tuples(arr) ==
    IF arr = <<>> THEN <<>>
    ELSE insert_sorted_tuple(arr[Len(arr)], none_sorted_tuples(SubSeq(arr, 1, Len(arr) - 1)))

\* to_tuple of CombineArchive, had it not sorted the tuples of the contents
CombineArchive_to_tuple_unsorted(contents) == [i \in 1..Len(contents) |-> to_tuple(contents[i])]

\* CombineArchive.to_tuple
CombineArchive_to_tuple(contents) == none_sorted_tuples([i \in 1..Len(contents) |-> to_tuple(contents[i])])

\* CombineArchiveContent.is_equal
content_is_equal(a, b) ==
    /\ a.location = b.location
    /\ a.format = b.format
    /\ a.master = b.master

\* are_lists_equal(a, b)
are_lists_equal(a, b) ==
    IF Len(a) # Len(b) THEN FALSE
    ELSE LET sa == none_sorted(a)
             sb == none_sorted(b)
         IN \A i \in 1..Len(sa) : content_is_equal(sa[i], sb[i])

\* CombineArchive.is_equal
is_equal(a, b) == are_lists_equal(a, b)

(***************************************************************************)
(* archives/data_model.py: CombineArchiveContent, CombineArchive           *)
(***************************************************************************)
\* CombineArchiveContent.__init__(location=None, format=None, master=False)
CombineArchiveContent(location, format, master) ==
    [location |-> location, format |-> format, master |-> master]

\* get_master_content, had it returned at the first master content
RECURSIVE get_master_content_first(_)
get_master_content_first(contents) ==
    IF contents = <<>> THEN <<>>
    ELSE IF Head(contents).master # None /\ Head(contents).master[1]
         THEN <<Head(contents)>>
         ELSE get_master_content_first(Tail(contents))

\* CombineArchive.get_master_content
RECURSIVE get_master_content(_)
get_master_content(contents) ==
    IF contents = <<>> THEN <<>>
    ELSE IF Head(contents).master # None /\ Head(contents).master[1]
         THEN <<Head(contents)>> \o get_master_content(Tail(contents))
         ELSE get_master_content(Tail(contents))

(***************************************************************************)
(* libcombine.CaOmexManifest as the code uses it: a list of CaContent      *)
(* elements, each attribute either unset or set to a value                 *)
(***************************************************************************)
\* manifest.createContent()
createContent == [location |-> None, format |-> None, master |-> None]

\* the loop body of CombineArchiveWriter.write_manifest for one content
write_content(content) ==
    LET c0 == createContent
        c1 == IF content.location # None THEN [c0 EXCEPT !.location = content.location] ELSE c0
        c2 == IF content.format # None THEN [c1 EXCEPT !.format = content.format] ELSE c1
        c3 == IF content.master # None THEN [c2 EXCEPT !.master = content.master] ELSE c2
    IN c3

\* write_manifest, had it serialized the newest content only
write_manifest_newest_only(contents) ==
    [kind |-> "manifest",
     contents |-> IF contents = <<>> THEN <<>> ELSE <<write_content(contents[Len(contents)])>>]

\* CombineArchiveWriter.write_manifest: the file libcombine.writeOMEXToFile leaves
write_manifest(contents) ==
    [kind |-> "manifest", contents |-> [i \in 1..Len(contents) |-> write_content(contents[i])]]

\* read_manifest's loop body, had it not copied the format
read_content_no_format(content_comb) ==
    LET c0 == CombineArchiveContent(None, None, Some(FALSE))
        c1 == IF content_comb.location # None THEN [c0 EXCEPT !.location = content_comb.location] ELSE c0
        c3 == IF content_comb.master # None THEN [c1 EXCEPT !.master = content_comb.master] ELSE c1
    IN c3

\* the loop body of CombineArchiveReader.read_manifest for one element
read_content(content_comb) ==
    LET c0 == CombineArchiveContent(None, None, Some(FALSE))
        c1 == IF content_comb.location # None THEN [c0 EXCEPT !.location = content_comb.location] ELSE c0
        c2 == IF content_comb.format # None THEN [c1 EXCEPT !.format = content_comb.format] ELSE c1
        c3 == IF content_comb.master # None THEN [c2 EXCEPT !.master = content_comb.master] ELSE c2
    IN c3

\* CombineArchiveReader.read_manifest on a file libcombine reads without errors
read_manifest(file) ==
    [i \in 1..Len(file.contents) |-> read_content(file.contents[i])]

(***************************************************************************)
(* Manifest-model harness: manifests drawn from a bounded universe, and    *)
(* the operations of CombineArchive / CombineArchiveWriter /               *)
(* CombineArchiveReader applied to them                                    *)
(***************************************************************************)
\* "a", "ab" (a proper prefix orders first) and one format string
Str_a == <<97>>

Str_ab == <<97, 98>>

Str_f == <<102>>

\* the strings of Scenario A
Str_dot == <<46>>

Str_model_txt == <<109, 111, 100, 101, 108, 46, 116, 120, 116>>

Str_simulation_sedml == <<115, 105, 109, 117, 108, 97, 116, 105, 111, 110, 46, 115, 101, 100, 109, 108>>

\* CombineArchiveContentFormat.OMEX
Uri_OMEX == <<104, 116, 116, 112, 58, 47, 47, 105, 100, 101, 110, 116, 105, 102, 105, 101, 114, 115, 46, 111, 114, 103, 47, 99, 111, 109, 98, 105, 110, 101, 46, 115, 112, 101, 99, 105, 102, 105, 99, 97, 116, 105, 111, 110, 115, 47, 111, 109, 101, 120>>

\* CombineArchiveContentFormat.Smoldyn
Uri_Smoldyn == <<104, 116, 116, 112, 58, 47, 47, 112, 117, 114, 108, 46, 111, 114, 103, 47, 78, 69, 84, 47, 109, 101, 100, 105, 97, 116, 121, 112, 101, 115, 47, 116, 101, 120, 116, 47, 115, 109, 111, 108, 100, 121, 110, 43, 112, 108, 97, 105, 110>>

\* CombineArchiveContentFormat.SED_ML
Uri_SED_ML == <<104, 116, 116, 112, 58, 47, 47, 105, 100, 101, 110, 116, 105, 102, 105, 101, 114, 115, 46, 111, 114, 103, 47, 99, 111, 109, 98, 105, 110, 101, 46, 115, 112, 101, 99, 105, 102, 105, 99, 97, 116, 105, 111, 110, 115, 47, 115, 101, 100, 45, 109, 108>>

ScenarioA ==
    << CombineArchiveContent(Some(Str_dot), Some(Uri_OMEX), Some(FALSE)),
       CombineArchiveContent(Some(Str_model_txt), Some(Uri_Smoldyn), Some(FALSE)),
       CombineArchiveContent(Some(Str_simulation_sedml), Some(Uri_SED_ML), Some(TRUE)) >>

\* contents with and without a location and a format, with equal and with
\* different locations, with either master flag
ContentUniverse ==
    { CombineArchiveContent(None, None, Some(FALSE)),
      CombineArchiveContent(None, Some(Str_f), Some(TRUE)),
      CombineArchiveContent(Some(Str_a), None, Some(FALSE)),
      CombineArchiveContent(Some(Str_a), Some(Str_f), Some(FALSE)),
      CombineArchiveContent(Some(Str_a), Some(Str_f), Some(TRUE)),
      CombineArchiveContent(Some(Str_ab), None, Some(TRUE)),
      CombineArchiveContent(Some(Str_ab), Some(Str_f), Some(FALSE)) }

\* all lists of at most n contents
RECURSIVE ListsUpTo(_)
ListsUpTo(n) ==
    IF n = 0 THEN { <<>> }
    ELSE LET shorter == ListsUpTo(n - 1)
         IN shorter \cup { Append(l, c) : l \in { x \in shorter : Len(x) = n - 1 }, c \in ContentUniverse }

\* a content whose master attribute was never given a value (master=None)
MasterUnset == << CombineArchiveContent(Some(Str_a), Some(Str_f), None) >>

Manifests == ListsUpTo(MaxContents) \cup { ScenarioA, MasterUnset }

Value(v) == [tag |-> "value", val |-> v]

MInit ==
    /\ mA \in Manifests
    /\ mB = <<>>
    /\ mPath = NoFile
    /\ mOp = "init"
    /\ mRes = NoResult

\* a.is_equal(b) for another manifest b
MIsEqual ==
    /\ mOp = "init"
    /\ \E b \in Manifests :
        /\ mB' = b
        /\ mRes' = Value(is_equal(mA, b))
    /\ mOp' = "is_equal"
    /\ UNCHANGED <<mA, mPath>>
    /\ UNCHANGED <<avars, rvars>>

\* a.get_master_content()
MGetMaster ==
    /\ mOp = "init"
    /\ mOp' = "get_master_content"
    /\ mRes' = Value(get_master_content(mA))
    /\ UNCHANGED <<mA, mB, mPath>>
    /\ UNCHANGED <<avars, rvars>>

\* CombineArchiveWriter().write_manifest(a.contents, path)
MWriteManifest ==
    /\ mOp = "init"
    /\ mOp' = "write_manifest"
    /\ mPath' = write_manifest(mA)
    /\ mRes' = NoResult
    /\ UNCHANGED <<mA, mB>>
    /\ UNCHANGED <<avars, rvars>>

\* CombineArchiveReader().read_manifest(path)
MReadManifest ==
    /\ mOp = "write_manifest"
    /\ mPath.kind = "manifest"
    /\ mOp' = "read_manifest"
    /\ mRes' = Value(read_manifest(mPath))
    /\ UNCHANGED <<mA, mB, mPath>>
    /\ UNCHANGED <<avars, rvars>>

MNext == MIsEqual \/ MGetMaster \/ MWriteManifest \/ MReadManifest

\* the archive service is not part of this harness
AIdle ==
    /\ fs = <<>>
    /\ dirs = {}
    /\ svc = <<>>
    /\ hist = <<>>
    /\ last = <<>>

\* the manifest-model harness is not part of the archive service
MIdle == mA = <<>> /\ mB = <<>> /\ mPath = NoFile /\ mOp = "init" /\ mRes = NoResult

\* no format has been resolved
RIdle == calls = <<>>

\* a manifest has been constructed, nothing else exists
InitManifest ==
    /\ MInit
    /\ AIdle
    /\ RIdle

SpecManifest == InitManifest /\ [][MNext]_vars

(***************************************************************************)
(* File names and paths                                                    *)
(***************************************************************************)
\* file and directory names, as the substrings the code looks for
N_proj == <<"proj">>

N_sub == <<"sub">>

N_arch_omex == <<"arch", ".omex">>

N_bad_omex == <<"bad", ".omex">>

N_manifest_xml == <<"manifest", ".xml">>

N_model_txt == <<"model", ".txt">>

N_modelout_txt == <<"modelout", ".txt">>

N_result == <<"result", ".simularium">>

\* the default of simularium_filename in SpatialCombineArchive.__init__
N_spatial_combine_archive == <<"spatial_combine_archive">>

\* the keys 'root' and 'manifest' of self.paths
K_root == <<"root">>

K_manifest == <<"manifest">>

\* the key 'model_output_file' of self.paths
K_model_output_file == <<"model_output_file">>

\* os.path.join(root, name) for a relative name
join(root, name) == Append(root, name)

\* rootpath.endswith('.omex')
endswith_omex(path) ==
    /\ path # <<>>
    /\ path[Len(path)] # <<>>
    /\ path[Len(path)][Len(path[Len(path)])] = ".omex"

\* '.omex' in rootpath
contains_omex(path) == \E i \in 1..Len(path) : \E j \in 1..Len(path[i]) : path[i][j] = ".omex"

\* 'manifest' in v
contains_manifest(path) == \E i \in 1..Len(path) : \E j \in 1..Len(path[i]) : path[i][j] = "manifest"

\* the unzipped location, had '_UNZIPPED' been appended to the archive's name
replace_omex_appended(path) ==
    [i \in 1..Len(path) |-> IF i = Len(path) THEN Append(path[i], "_UNZIPPED") ELSE path[i]]

\* rootpath.replace('.omex', '_UNZIPPED'): every occurrence is replaced
replace_omex(path) ==
    [i \in 1..Len(path) |->
        [j \in 1..Len(path[i]) |-> IF path[i][j] = ".omex" THEN "_UNZIPPED" ELSE path[i][j]]]

IsPrefix(d, x) == Len(d) <= Len(x) /\ SubSeq(x, 1, Len(d)) = d

\* the directories a file at path x lies in
Parents(x) == { SubSeq(x, 1, n) : n \in 1..(Len(x) - 1) }

(***************************************************************************)
(* Python dict: insertion-ordered list of <<key, value>>                   *)
(***************************************************************************)
dict_has(d, k) == \E i \in 1..Len(d) : d[i][1] = k

dict_get(d, k) == d[CHOOSE i \in 1..Len(d) : d[i][1] = k][2]

\* d[k] = v: a present key keeps its position
dict_set(d, k, v) ==
    IF dict_has(d, k)
    THEN [i \in 1..Len(d) |-> IF d[i][1] = k THEN <<k, v>> ELSE d[i]]
    ELSE Append(d, <<k, v>>)

dict_keys(d) == { d[i][1] : i \in 1..Len(d) }

\* list(d.values())
dict_values(d) == [i \in 1..Len(d) |-> d[i][2]]

(***************************************************************************)
(* Files                                                                   *)
(***************************************************************************)
DataFile(tag) == [kind |-> "data", contents |-> tag]

\* a zip file: its members in the order of namelist()
ZipFile(members) == [kind |-> "zip", contents |-> members]

Member(archive_path, data) == [archive_path |-> archive_path, data |-> data]

\* a file that is no zip file
Garbage == [kind |-> "garbage", contents |-> <<>>]

(***************************************************************************)
(* os.walk                                                                 *)
(***************************************************************************)
\* the orders in which a directory listing can return the set S
Orderings(S) == { q \in [1..Cardinality(S) -> S] : \A i, j \in 1..Cardinality(S) : i # j => q[i] # q[j] }

SubDirs(d, D) == { x \in D : Len(x) = Len(d) + 1 /\ IsPrefix(d, x) }

FileNames(d, F) == { x[Len(x)] : x \in { y \in F : Len(y) = Len(d) + 1 /\ IsPrefix(d, y) } }

RECURSIVE ConcatChoices(_)
ConcatChoices(ss) ==
    IF ss = <<>> THEN { <<>> }
    ELSE { a \o b : a \in Head(ss), b \in ConcatChoices(Tail(ss)) }

\* the sequences of (root, files) os.walk(d) can yield, top-down, on the
\* filesystem with files F and directories D
RECURSIVE os_walk(_, _, _)
os_walk(d, F, D) ==
    { <<[root |-> d, files |-> fo]>> \o rest :
        fo \in Orderings(FileNames(d, F)),
        rest \in UNION { ConcatChoices([i \in 1..Len(so) |-> os_walk(so[i], F, D)]) :
                            so \in Orderings(SubDirs(d, D)) } }

(***************************************************************************)
(* SpatialCombineArchive.get_all_archive_filepaths                         *)
(***************************************************************************)
\* the inner loop, had it kept the path a name already has
RECURSIVE index_files_keep_first(_, _, _)
index_files_keep_first(paths, root, files) ==
    IF files = <<>> THEN paths
    ELSE index_files_keep_first(IF dict_has(paths, Head(files)) THEN paths
                                ELSE dict_set(paths, Head(files), join(root, Head(files))),
                                root, Tail(files))

\* the inner loop: paths[f] = os.path.join(root, f) for f in files
RECURSIVE index_files(_, _, _)
index_files(paths, root, files) ==
    IF files = <<>> THEN paths
    ELSE index_files(dict_set(paths, Head(files), join(root, Head(files))), root, Tail(files))

\* the outer loop: paths['root'] = root, then the files of root
RECURSIVE index_walk(_, _)
index_walk(paths, walk) ==
    IF walk = <<>> THEN paths
    ELSE index_walk(index_files(dict_set(paths, K_root, Head(walk).root), Head(walk).root, Head(walk).files),
                    Tail(walk))

\* the dicts get_all_archive_filepaths can return for rootpath (one per
\* listing order); os.walk of a regular file or of nothing yields nothing
get_all_archive_filepaths(rootpath, F, D) ==
    IF rootpath \in D
    THEN { index_walk(<<>>, w) : w \in os_walk(rootpath, F, D) }
    ELSE { <<>> }

(***************************************************************************)
(* biosimulators_warning.warn, ArchiveReader.run                           *)
(***************************************************************************)
\* warn(message, category) called with nargs positional arguments
warn(nargs) == IF nargs = 2 THEN "warned" ELSE "TypeError"

\* zipfile.ZipFile(archive_filename, mode='r') succeeds
is_zipfile(archive_filename, files) ==
    archive_filename \in DOMAIN files /\ files[archive_filename].kind = "zip"

\* zip_file.extractall(out_dir): the files after extraction
extractall_files(zip, out_dir, files) ==
    LET extracted == { out_dir \o zip.contents[i].archive_path : i \in 1..Len(zip.contents) }
        data(x) == zip.contents[CHOOSE i \in 1..Len(zip.contents) :
                        x = out_dir \o zip.contents[i].archive_path
                        /\ \A j \in (i + 1)..Len(zip.contents) : x # out_dir \o zip.contents[j].archive_path].data
    IN [x \in DOMAIN files \cup extracted |-> IF x \in extracted THEN data(x) ELSE files[x]]

\* zip_file.extractall(out_dir): the directories after extraction
extractall_dirs(zip, out_dir, D) ==
    D \cup {out_dir} \cup Parents(out_dir)
      \cup UNION { Parents(out_dir \o zip.contents[i].archive_path) : i \in 1..Len(zip.contents) }

\* ArchiveReader.run: the Archive it returns
reader_run_archive(zip, out_dir) ==
    [i \in 1..Len(zip.contents) |->
        [archive_path |-> zip.contents[i].archive_path,
         local_path |-> out_dir \o zip.contents[i].archive_path]]

(***************************************************************************)
(* The archive service: SpatialCombineArchive instances on one filesystem  *)
(***************************************************************************)
Services == {1, 2}

N_dot == <<".">>

N_simulation_sedml == <<"simulation", ".sedml">>

N_new_omex_bak == <<"new", ".omex", ".bak">>

\* the manifest of Scenario A, locations relative to the archive root
ManifestA ==
    << CombineArchiveContent(Some(<<N_dot>>), Some("http://identifiers.org/combine.specifications/omex"), Some(FALSE)),
       CombineArchiveContent(Some(<<N_model_txt>>), Some("http://purl.org/NET/mediatypes/text/smoldyn+plain"), Some(FALSE)),
       CombineArchiveContent(Some(<<N_simulation_sedml>>), Some("http://identifiers.org/combine.specifications/sed-ml"), Some(TRUE)) >>

\* the paths an instance is constructed on: a directory, a packaged archive,
\* a file that is no zip archive, and a path at which nothing exists
GivenPaths == { <<N_proj>>, <<N_arch_omex>>, <<N_bad_omex>>, <<N_new_omex_bak>> }

\* the members of the packaged archive
ArchiveMembers ==
    << Member(<<N_manifest_xml>>, write_manifest(ManifestA)),
       Member(<<N_model_txt>>, DataFile("model")) >>

\* the filesystem at the start: the directory proj (with a subdirectory), the
\* packaged archive arch.omex and the file bad.omex
InitialFiles ==
    (<<N_proj, N_manifest_xml>> :> write_manifest(ManifestA))
    @@ (<<N_proj, N_model_txt>> :> DataFile("model"))
    @@ (<<N_proj, N_sub, N_modelout_txt>> :> DataFile("modelout"))
    @@ (<<N_arch_omex>> :> ZipFile(ArchiveMembers))
    @@ (<<N_bad_omex>> :> Garbage)

InitialDirs == { <<N_proj>>, <<N_proj, N_sub>> }

Unopened ==
    [state |-> "unopened", given |-> <<>>, rootpath |-> <<>>, simularium_filename |-> <<>>,
     paths |-> <<>>, unzips |-> 0,
     pc |-> "idle", contents |-> <<>>, contents_fp |-> <<>>, read_fp |-> <<>>]

Call(s, op, outcome, ret) == [svc |-> s, op |-> op, outcome |-> outcome, ret |-> ret]

NoCall == Call(0, "none", "none", NoResult)

Init ==
    /\ fs = InitialFiles
    /\ dirs = InitialDirs
    /\ svc = [s \in Services |-> Unopened]
    /\ hist = <<>>
    /\ last = NoCall
    /\ MIdle
    /\ RIdle

\* the rest of SpatialCombineArchive.__init__ once self.rootpath is settled:
\* the possible instances (one per listing order of the walk)
\* SmoldynCombineArchive.__init__ then adds the key 'model_output_file'
constructed(given, rootpath, unzips, F, D) ==
    { [Unopened EXCEPT !.state = "open", !.given = given, !.rootpath = rootpath,
                       !.simularium_filename = join(rootpath, N_spatial_combine_archive),
                       !.paths = dict_set(paths, K_model_output_file, join(rootpath, N_modelout_txt)),
                       !.unzips = unzips] :
        paths \in get_all_archive_filepaths(rootpath, F, D) }

\* the instance whose constructor raised
failed(given, unzips) ==
    [Unopened EXCEPT !.state = "failed", !.given = given, !.rootpath = given, !.unzips = unzips]

\* the constructor, had it built the index before unpacking the archive
Open_index_first(s, rootpath) ==
    /\ svc[s].state = "unopened"
    /\ UNCHANGED <<hist, mvars, rvars>>
    /\ IF endswith_omex(rootpath)
       THEN IF is_zipfile(rootpath, fs)
            THEN LET unzipped_output_location == replace_omex(rootpath)
                     F == extractall_files(fs[rootpath], unzipped_output_location, fs)
                     D == extractall_dirs(fs[rootpath], unzipped_output_location, dirs)
                 IN /\ fs' = F
                    /\ dirs' = D
                    /\ \E new \in constructed(rootpath, unzipped_output_location, 1, DOMAIN fs, dirs) :
                          svc' = [svc EXCEPT ![s] = new]
                    /\ last' = Call(s, "__init__", "returned", NoResult)
            ELSE \* reader.run raised; the except clause calls warn with one argument
                 /\ UNCHANGED <<fs, dirs>>
                 /\ IF warn(1) = "TypeError"
                    THEN /\ svc' = [svc EXCEPT ![s] = failed(rootpath, 1)]
                         /\ last' = Call(s, "__init__", "TypeError", NoResult)
                    ELSE /\ \E new \in constructed(rootpath, rootpath, 1, DOMAIN fs, dirs) :
                               svc' = [svc EXCEPT ![s] = new]
                         /\ last' = Call(s, "__init__", "returned", NoResult)
       ELSE /\ UNCHANGED <<fs, dirs>>
            /\ \E new \in constructed(rootpath, rootpath, 0, DOMAIN fs, dirs) :
                  svc' = [svc EXCEPT ![s] = new]
            /\ last' = Call(s, "__init__", "returned", NoResult)

\* SpatialCombineArchive(rootpath): __init__, __parse_rootpath, unzip
Open(s, rootpath) ==
    /\ svc[s].state = "unopened"
    /\ UNCHANGED <<hist, mvars, rvars>>
    /\ IF endswith_omex(rootpath)
       THEN IF is_zipfile(rootpath, fs)
            THEN LET unzipped_output_location == replace_omex(rootpath)
                     F == extractall_files(fs[rootpath], unzipped_output_location, fs)
                     D == extractall_dirs(fs[rootpath], unzipped_output_location, dirs)
                 IN /\ fs' = F
                    /\ dirs' = D
                    /\ \E new \in constructed(rootpath, unzipped_output_location, 1, DOMAIN F, D) :
                          svc' = [svc EXCEPT ![s] = new]
                    /\ last' = Call(s, "__init__", "returned", NoResult)
            ELSE \* reader.run raised; the except clause calls warn with one argument
                 /\ UNCHANGED <<fs, dirs>>
                 /\ IF warn(1) = "TypeError"
                    THEN /\ svc' = [svc EXCEPT ![s] = failed(rootpath, 1)]
                         /\ last' = Call(s, "__init__", "TypeError", NoResult)
                    ELSE /\ \E new \in constructed(rootpath, rootpath, 1, DOMAIN fs, dirs) :
                               svc' = [svc EXCEPT ![s] = new]
                         /\ last' = Call(s, "__init__", "returned", NoResult)
       ELSE /\ UNCHANGED <<fs, dirs>>
            /\ \E new \in constructed(rootpath, rootpath, 0, DOMAIN fs, dirs) :
                  svc' = [svc EXCEPT ![s] = new]
            /\ last' = Call(s, "__init__", "returned", NoResult)

\* get_all_archive_filepaths, had it moved the instance's root to paths['root']
Index_rerooting(s) ==
    /\ svc[s].state = "open"
    /\ svc[s].pc = "idle"
    /\ \E paths \in get_all_archive_filepaths(svc[s].rootpath, DOMAIN fs, dirs) :
          /\ last' = Call(s, "get_all_archive_filepaths", "returned", Value(paths))
          /\ svc' = [svc EXCEPT ![s].rootpath =
                        IF dict_has(paths, K_root) THEN dict_get(paths, K_root) ELSE @]
    /\ UNCHANGED <<fs, dirs, hist, mvars, rvars>>

\* get_all_archive_filepaths, had it stored the mapping in self.paths
Index_refreshing(s) ==
    /\ svc[s].state = "open"
    /\ svc[s].pc = "idle"
    /\ \E paths \in get_all_archive_filepaths(svc[s].rootpath, DOMAIN fs, dirs) :
          /\ last' = Call(s, "get_all_archive_filepaths", "returned", Value(paths))
          /\ svc' = [svc EXCEPT ![s].paths = paths]
    /\ UNCHANGED <<fs, dirs, hist, mvars, rvars>>

\* archive.get_all_archive_filepaths()
Index(s) ==
    /\ svc[s].state = "open"
    /\ svc[s].pc = "idle"
    /\ \E paths \in get_all_archive_filepaths(svc[s].rootpath, DOMAIN fs, dirs) :
          last' = Call(s, "get_all_archive_filepaths", "returned", Value(paths))
    /\ UNCHANGED <<fs, dirs, svc, hist, mvars, rvars>>

\* the values of self.paths that contain 'manifest', in iteration order
manifest_matches(paths) == SelectSeq(dict_values(paths), contains_manifest)

\* self.paths after the loop of get_manifest_filepath: every match is stored
\* under the key 'manifest', the last one stays
get_manifest_filepath_paths(paths) ==
    LET manifest == manifest_matches(paths)
    IN IF manifest = <<>> THEN paths ELSE dict_set(paths, K_manifest, manifest[Len(manifest)])

\* what get_manifest_filepath can return: list(set(manifest))[0] is an
\* element of the set that the hash order puts first; no element: IndexError
get_manifest_filepath_returns(paths) ==
    { manifest_matches(paths)[i] : i \in 1..Len(manifest_matches(paths)) }

\* archive.get_manifest_filepath()
GetManifestFilepath(s) ==
    /\ svc[s].state = "open"
    /\ svc[s].pc = "idle"
    /\ IF get_manifest_filepath_returns(svc[s].paths) = {}
       THEN /\ svc' = svc
            /\ last' = Call(s, "get_manifest_filepath", "IndexError", NoResult)
       ELSE \E manifest_fp \in get_manifest_filepath_returns(svc[s].paths) :
               /\ svc' = [svc EXCEPT ![s].paths = get_manifest_filepath_paths(svc[s].paths)]
               /\ last' = Call(s, "get_manifest_filepath", "returned", Value(manifest_fp))
    /\ UNCHANGED <<fs, dirs, hist, mvars, rvars>>

\* generate_new_archive_content, had it marked the new content as master
generate_new_archive_content_master(fp) == CombineArchiveContent(Some(fp), None, Some(TRUE))

\* SpatialCombineArchive.generate_new_archive_content(fp)
generate_new_archive_content(fp) == CombineArchiveContent(Some(fp), None, Some(FALSE))

\* add_file_to_manifest calls started so far
AddsStarted == Len(SelectSeq(hist, LAMBDA e : e.op # "write"))

Event(s, op, path, contents, fp) == [svc |-> s, op |-> op, path |-> path, contents |-> contents, fp |-> fp]

\* the locations a caller registers: the instance's simularium_filename and
\* a name relative to the archive root
NewLocations(s) == { svc[s].simularium_filename, <<N_result>> }

\* add_file_to_manifest(contents_fp), up to the return of
\* read_manifest_contents(): get_manifest_filepath, then read_manifest
AddRead(s, contents_fp) ==
    /\ svc[s].state = "open"
    /\ svc[s].pc = "idle"
    /\ AddsStarted < MaxAdds
    /\ UNCHANGED <<fs, dirs, mvars, rvars>>
    /\ IF get_manifest_filepath_returns(svc[s].paths) = {}
       THEN /\ svc' = svc
            /\ last' = Call(s, "add_file_to_manifest", "IndexError", NoResult)
            /\ hist' = Append(hist, Event(s, "raised", <<>>, <<>>, contents_fp))
       ELSE \E manifest_fp \in get_manifest_filepath_returns(svc[s].paths) :
            LET paths == get_manifest_filepath_paths(svc[s].paths)
            IN IF manifest_fp \in DOMAIN fs /\ fs[manifest_fp].kind = "manifest"
               THEN /\ svc' = [svc EXCEPT ![s].pc = "read", ![s].paths = paths,
                                          ![s].contents = read_manifest(fs[manifest_fp]),
                                          ![s].contents_fp = contents_fp, ![s].read_fp = manifest_fp]
                    /\ last' = Call(s, "add_file_to_manifest", "running", NoResult)
                    /\ hist' = Append(hist, Event(s, "read", manifest_fp, read_manifest(fs[manifest_fp]), contents_fp))
               ELSE \* no OMEX manifest at manifest_fp: read_manifest raises
                    /\ svc' = [svc EXCEPT ![s].paths = paths]
                    /\ last' = Call(s, "add_file_to_manifest", "raised", NoResult)
                    /\ hist' = Append(hist, Event(s, "raised", manifest_fp, <<>>, contents_fp))

\* add_file_to_manifest, from the return of read_manifest_contents() on:
\* append the new content, get_manifest_filepath again, write_manifest
AddWrite(s) ==
    /\ svc[s].state = "open"
    /\ svc[s].pc = "read"
    /\ UNCHANGED <<dirs, mvars, rvars>>
    /\ LET new_content == generate_new_archive_content(svc[s].contents_fp)
           contents == Append(svc[s].contents, new_content)
       IN \E manifest_fp \in get_manifest_filepath_returns(svc[s].paths) :
            /\ fs' = [x \in DOMAIN fs \cup {manifest_fp} |->
                        IF x = manifest_fp THEN write_manifest(contents) ELSE fs[x]]
            /\ svc' = [svc EXCEPT ![s].pc = "idle",
                                  ![s].paths = get_manifest_filepath_paths(svc[s].paths),
                                  ![s].contents = <<>>, ![s].contents_fp = <<>>, ![s].read_fp = <<>>]
            /\ last' = Call(s, "add_file_to_manifest", "returned", NoResult)
            /\ hist' = Append(hist, Event(s, "write", manifest_fp, contents, svc[s].contents_fp))

\* ArchiveWriter.run(archive, archive_filename) when archive is a list of
\* paths, as rezip passes it: zipfile.ZipFile(archive_filename, mode='w')
\* creates or truncates the file, then archive.files raises AttributeError
\* and the with-block closes an empty zip file
writer_run_list(archive_filename, files, D) ==
    IF archive_filename \in D
    THEN [files |-> files, outcome |-> "IsADirectoryError"]
    ELSE [files |-> [x \in DOMAIN files \cup {archive_filename} |->
                        IF x = archive_filename THEN ZipFile(<<>>) ELSE files[x]],
          outcome |-> "AttributeError"]

\* archive.rezip(): no paths_to_write, no destination
Rezip(s) ==
    /\ svc[s].state = "open"
    /\ svc[s].pc = "idle"
    /\ UNCHANGED <<dirs, svc, hist, mvars, rvars>>
    /\ IF contains_omex(svc[s].rootpath)
       THEN LET destination == svc[s].rootpath
                written == writer_run_list(destination, fs, dirs)
            IN /\ fs' = written.files
               /\ last' = Call(s, "rezip", written.outcome, NoResult)
       ELSE /\ fs' = fs
            /\ last' = Call(s, "rezip", "returned", NoResult)

Next ==
    \/ \E s \in Services, p \in GivenPaths : Open(s, p)
    \/ \E s \in Services : Index(s)
    \/ \E s \in Services : GetManifestFilepath(s)
    \/ \E s \in Services : \E fp \in NewLocations(s) : AddRead(s, fp)
    \/ \E s \in Services : AddWrite(s)
    \/ \E s \in Services : Rezip(s)

Spec == Init /\ [][Next]_vars

(***************************************************************************)
(* ArchiveWriter.run, ArchiveReader.run                                    *)
(***************************************************************************)
\* the most files an Archive bundles
MaxFiles == 2

ArchiveFile(local_path, archive_path) == [local_path |-> local_path, archive_path |-> archive_path]

\* os.path.normpath on a relative path: the components '.' go, and '.' is
\* what is left of a path of nothing else
normpath(path) ==
    IF SelectSeq(path, LAMBDA c : c # N_dot) = <<>> THEN <<N_dot>>
    ELSE SelectSeq(path, LAMBDA c : c # N_dot)

\* zip_file.write with no arcname: the member is named after the local path
zip_write_local_name(members, file, files) ==
    Append(members, Member(normpath(file.local_path), files[file.local_path]))

\* zip_file.write(file.local_path, arcname=file.archive_path): the member is
\* named normpath(arcname) and holds the bytes of the local file; a name
\* already in the archive is added once more
zip_write(members, file, files) ==
    Append(members, Member(normpath(file.archive_path), files[file.local_path]))

\* the loop of ArchiveWriter.run; a local path that does not exist ends it
RECURSIVE writer_write_files(_, _, _)
writer_write_files(members, archive_files, files) ==
    IF archive_files = <<>> THEN [members |-> members, outcome |-> "returned"]
    ELSE IF Head(archive_files).local_path \notin DOMAIN files
         THEN [members |-> members, outcome |-> "FileNotFoundError"]
         ELSE writer_write_files(zip_write(members, Head(archive_files), files), Tail(archive_files), files)

\* ArchiveWriter.run(archive, archive_filename): the zip file is created or
\* truncated, and closed with the members written so far
writer_run(archive, archive_filename, files) ==
    LET written == writer_write_files(<<>>, archive, files)
    IN [files |-> [x \in DOMAIN files \cup {archive_filename} |->
                      IF x = archive_filename THEN ZipFile(written.members) ELSE files[x]],
        outcome |-> written.outcome]

N_src == <<"src">>

N_out == <<"out">>

N_out_zip == <<"out", ".zip">>

N_missing_txt == <<"missing", ".txt">>

N_metadata_rdf == <<"metadata", ".rdf">>

\* the local files to bundle
SourceFiles ==
    (<<N_src, N_model_txt>> :> DataFile("model"))
    @@ (<<N_src, N_modelout_txt>> :> DataFile("modelout"))

LocalPaths == DOMAIN SourceFiles \cup { <<N_src, N_missing_txt>> }

ArchivePaths == { <<N_model_txt>>, <<N_dot, N_model_txt>>, <<N_sub, N_modelout_txt>> }

ArchiveFileUniverse == { ArchiveFile(l, a) : l \in LocalPaths, a \in ArchivePaths }

RECURSIVE FileListsUpTo(_)
FileListsUpTo(n) ==
    IF n = 0 THEN { <<>> }
    ELSE LET shorter == FileListsUpTo(n - 1)
         IN shorter \cup { Append(l, f) : l \in { x \in shorter : Len(x) = n - 1 }, f \in ArchiveFileUniverse }

\* the archives to pack: files with distinct archive paths
Archives ==
    { a \in FileListsUpTo(MaxFiles) :
        \A i, j \in 1..Len(a) : i # j => a[i].archive_path # a[j].archive_path }

\* the directories to unpack into: a new one and the one the files came from
OutDirs == { <<N_out>>, <<N_src>> }

\* Archive(files) has been constructed, the local files are on disk
InitZip ==
    /\ mA \in Archives
    /\ mB = <<>>
    /\ mPath = <<>>
    /\ mOp = "init"
    /\ mRes = NoResult
    /\ fs = SourceFiles
    /\ dirs = { <<N_src>> }
    /\ svc = <<>>
    /\ hist = <<>>
    /\ last = <<>>
    /\ RIdle

\* ArchiveWriter().run(archive, 'out.zip')
ZPack ==
    /\ mOp = "init"
    /\ LET written == writer_run(mA, <<N_out_zip>>, fs)
       IN /\ fs' = written.files
          /\ mOp' = IF written.outcome = "returned" THEN "packed" ELSE written.outcome
    /\ UNCHANGED <<mA, mB, mPath, mRes, dirs, svc, hist, last, rvars>>

\* ArchiveReader().run('out.zip', out_dir)
ZUnpack ==
    /\ mOp \in { "packed", "FileNotFoundError" }
    /\ \E out_dir \in OutDirs :
          /\ fs' = extractall_files(fs[<<N_out_zip>>], out_dir, fs)
          /\ dirs' = extractall_dirs(fs[<<N_out_zip>>], out_dir, dirs)
          /\ mRes' = Value(reader_run_archive(fs[<<N_out_zip>>], out_dir))
          /\ mPath' = out_dir
    /\ mOp' = IF mOp = "packed" THEN "unpacked" ELSE "unpacked_partial"
    /\ UNCHANGED <<mA, mB, svc, hist, last, rvars>>

NextZip == ZPack \/ ZUnpack

SpecZip == InitZip /\ [][NextZip]_vars

(***************************************************************************)
(* CombineArchiveWriter.write_manifest on a path of the filesystem         *)
(***************************************************************************)
\* what manifest.getErrorLog() can hold after the contents were set:
\* libcombine decides, so every combination of errors and warnings
ErrorLogs ==
    { [errors |-> e, warnings |-> w] : e \in { <<>>, <<"error">> }, w \in { <<>>, <<"warning">> } }

\* get_combine_errors_warnings(manifest)
get_combine_errors_warnings(log) == <<log.errors, log.warnings>>

\* libcombine.writeOMEXToFile(manifest, filename): the files afterwards;
\* a path that cannot be opened for writing is left alone and nothing raises
writeOMEXToFile(contents, filename, files, D) ==
    IF filename \in D THEN files
    ELSE [x \in DOMAIN files \cup {filename} |-> IF x = filename THEN write_manifest(contents) ELSE files[x]]

\* write_manifest, had it written the file before looking at the errors
write_manifest_to_file_unchecked(contents, filename, log, files, D) ==
    [files |-> writeOMEXToFile(contents, filename, files, D),
     outcome |-> IF get_combine_errors_warnings(log)[1] # <<>> THEN "ValueError" ELSE "returned"]

\* CombineArchiveWriter.write_manifest(contents, filename) when the error
\* log of the manifest it built is log: warnings are passed to warn with
\* their category, errors raise ValueError, otherwise the file is written
write_manifest_to_file(contents, filename, log, files, D) ==
    IF get_combine_errors_warnings(log)[2] # <<>> /\ warn(2) # "warned"
    THEN [files |-> files, outcome |-> warn(2)]
    ELSE IF get_combine_errors_warnings(log)[1] # <<>>
         THEN [files |-> files, outcome |-> "ValueError"]
         ELSE [files |-> writeOMEXToFile(contents, filename, files, D), outcome |-> "returned"]

\* what lies at the target path before the call: nothing, an earlier
\* manifest, or a file that is no manifest
PreviousFiles ==
    { (<<N_proj, N_model_txt>> :> DataFile("model")),
      (<<N_proj, N_model_txt>> :> DataFile("model")) @@ (<<N_proj, N_manifest_xml>> :> write_manifest(ManifestA)),
      (<<N_proj, N_model_txt>> :> DataFile("model")) @@ (<<N_proj, N_manifest_xml>> :> Garbage) }

\* the paths write_manifest is given: a file in proj, and the directory
WriteTargets == { <<N_proj, N_manifest_xml>>, <<N_proj>> }

\* the contents to write exist, and the directory proj
InitWrite ==
    /\ mA \in Manifests
    /\ mB = <<>>
    /\ mPath = <<>>
    /\ mOp = "init"
    /\ mRes = NoResult
    /\ fs \in PreviousFiles
    /\ dirs = { <<N_proj>> }
    /\ svc = <<>>
    /\ hist = <<>>
    /\ last = <<>>
    /\ RIdle

\* CombineArchiveWriter().write_manifest(contents, filename)
WWriteManifest ==
    /\ mOp = "init"
    /\ \E filename \in WriteTargets, log \in ErrorLogs :
          LET written == write_manifest_to_file(mA, filename, log, fs, dirs)
          IN /\ fs' = written.files
             /\ mOp' = written.outcome
             /\ mPath' = filename
             /\ mRes' = Value(log)
    /\ UNCHANGED <<mA, mB, dirs, svc, hist, last, rvars>>

SpecWrite == InitWrite /\ [][WWriteManifest]_vars

(***************************************************************************)
(* Locating the manifest: instances on directories of several shapes       *)
(***************************************************************************)
N_manifest_runs == <<"manifest", "_runs">>

N_plain == <<"plain">>

\* a directory whose own name contains 'manifest', a directory without a
\* manifest file, and the directory proj
LocateFiles ==
    (<<N_manifest_runs, N_manifest_xml>> :> write_manifest(ManifestA))
    @@ (<<N_manifest_runs, N_model_txt>> :> DataFile("model"))
    @@ (<<N_plain, N_model_txt>> :> DataFile("model"))
    @@ (<<N_proj, N_manifest_xml>> :> write_manifest(ManifestA))
    @@ (<<N_proj, N_model_txt>> :> DataFile("model"))
    @@ (<<N_proj, N_sub, N_modelout_txt>> :> DataFile("modelout"))

LocateDirs == { <<N_manifest_runs>>, <<N_plain>>, <<N_proj>>, <<N_proj, N_sub>> }

LocateRoots == { <<N_manifest_runs>>, <<N_plain>>, <<N_proj>> }

InitLocate ==
    /\ fs = LocateFiles
    /\ dirs = LocateDirs
    /\ svc = [s \in Services |-> Unopened]
    /\ hist = <<>>
    /\ last = NoCall
    /\ MIdle
    /\ RIdle

NextLocate ==
    \/ \E s \in Services, p \in LocateRoots : Open(s, p)
    \/ \E s \in Services : Index(s)
    \/ \E s \in Services : GetManifestFilepath(s)

SpecLocate == InitLocate /\ [][NextLocate]_vars

(***************************************************************************)
(* Properties of the manifest model                                        *)
(***************************************************************************)
\* number of occurrences of content c in the list l
RECURSIVE Occurrences(_, _)
Occurrences(c, l) ==
    IF l = <<>> THEN 0
    ELSE (IF Head(l) = c THEN 1 ELSE 0) + Occurrences(c, Tail(l))

Elements(l) == { l[i] : i \in 1..Len(l) }

SameEntries(a, b) ==
    \A c \in Elements(a) \cup Elements(b) : Occurrences(c, a) = Occurrences(c, b)

\* the list l rearranged by the permutation p of its indices
Rearranged(l, p) == [i \in 1..Len(l) |-> l[p[i]]]

\* the order the null-tolerant key describes: None first, then by <
OptLeq(x, y, type) == x = None \/ (y # None /\ (x = y \/ value_lt(x[1], y[1], type)))

KeyLeq(a, b) ==
    \/ (a.location # b.location /\ OptLeq(a.location, b.location, "str"))
    \/ (a.location = b.location /\ a.format # b.format /\ OptLeq(a.format, b.format, "str"))
    \/ (a.location = b.location /\ a.format = b.format /\ OptLeq(a.master, b.master, "bool"))

C5_IsEqual ==
    mOp = "is_equal"
        => /\ mRes.val = (Len(mA) = Len(mB) /\ SameEntries(mA, mB))
           /\ LET sa == none_sorted(mA)
              IN /\ SameEntries(sa, mA)
                 /\ \A i \in 1..(Len(sa) - 1) : KeyLeq(sa[i], sa[i + 1])
           /\ \A p \in Permutations(1..Len(mA)) : is_equal(Rearranged(mA, p), mB) = mRes.val
           /\ \A p \in Permutations(1..Len(mB)) : is_equal(mA, Rearranged(mB, p)) = mRes.val
           /\ is_equal(mB, mA) = mRes.val
           /\ is_equal(mA, mA)

C5_Witness ==
    /\ mOp = "is_equal"
    /\ mRes.val = TRUE
    /\ Len(mA) = 2
    /\ mA # mB
    /\ mA[1].location = mA[2].location
    /\ None \in {mA[1].format, mA[2].format}

\* C6: get_master_content returns exactly the entries whose master flag is
\* true, in manifest order (none when no entry is master, all of them when
\* several are, the simulation.sedml entry for the manifest of Scenario A),
\* and leaves the manifest as it was
C6_GetMaster ==
    [][mOp' = "get_master_content"
        => /\ mA' = mA
           /\ mRes'.val = SelectSeq(mA, LAMBDA c : c.master = Some(TRUE))
           /\ (mA = ScenarioA => mRes'.val = <<ScenarioA[3]>>)]_vars

C6_Witness ==
    /\ mOp = "get_master_content"
    /\ mA = ScenarioA
    /\ mRes.val = <<CombineArchiveContent(Some(Str_simulation_sedml), Some(Uri_SED_ML), Some(TRUE))>>

\* the (location, format, master) keys of the entries of both manifests
TupleKeys == { to_tuple(c) : c \in Elements(mA) \cup Elements(mB) }

\* the type of the i-th component of a key
ComponentType(i) == IF i = 3 THEN "bool" ELSE "str"

\* the first component in which the keys x and y differ
FirstDifference(x, y) == CHOOSE i \in 1..Len(x) : x[i] # y[i] /\ \A j \in 1..(i - 1) : x[j] = y[j]

\* C21: none_comparator is a total order on (location, format, master) keys
\* with components that may be null: it returns -1, 0 or 1, 0 exactly for
\* equal keys, cmp(x, y) = -cmp(y, x), it is transitive, two keys are ordered
\* by their first differing component with null before every value, and
\* none_sorted gives the same list for every rearrangement of its input
\* (every three keys occur as two entries of A and the one entry of B)
C21_TotalOrder ==
    (mOp = "is_equal" /\ Len(mB) <= 1)
        => /\ \A x, y \in TupleKeys :
                /\ none_comparator(x, y) \in {-1, 0, 1}
                /\ (none_comparator(x, y) = 0) <=> (x = y)
                /\ none_comparator(x, y) = -none_comparator(y, x)
                /\ x # y =>
                    LET i == FirstDifference(x, y)
                    IN /\ (none_comparator(x, y) = -1) <=> OptLeq(x[i], y[i], ComponentType(i))
                       /\ x[i] = None => none_comparator(x, y) = -1
           /\ \A x, y, z \in TupleKeys :
                (none_comparator(x, y) <= 0 /\ none_comparator(y, z) <= 0) => none_comparator(x, z) <= 0
           /\ \A p \in Permutations(1..Len(mA)) : none_sorted(Rearranged(mA, p)) = none_sorted(mA)
           /\ \A p \in Permutations(1..Len(mB)) : none_sorted(Rearranged(mB, p)) = none_sorted(mB)

\* two entries that differ first in a null format, given in descending
\* order, and a third entry with a null location in the other manifest
C21_Witness ==
    /\ mOp = "is_equal"
    /\ Len(mA) = 2 /\ Len(mB) = 1
    /\ mA[1].location = mA[2].location
    /\ mA[1].format # None /\ mA[2].format = None
    /\ mB[1].location = None /\ mA[1].location # None
    /\ none_comparator(to_tuple(mA[2]), to_tuple(mA[1])) = -1
    /\ none_sorted(mA) = <<mA[2], mA[1]>>
    /\ Cardinality(TupleKeys) = 3

\* C28: a.is_equal(b) holds exactly when a.to_tuple() = b.to_tuple(), and
\* to_tuple gives the same tuple for every order of the entries of a and
\* of b
C28_TupleAgrees ==
    mOp = "is_equal"
        => /\ mRes.val = (CombineArchive_to_tuple(mA) = CombineArchive_to_tuple(mB))
           /\ \A p \in Permutations(1..Len(mA)) :
                 CombineArchive_to_tuple(Rearranged(mA, p)) = CombineArchive_to_tuple(mA)
           /\ \A p \in Permutations(1..Len(mB)) :
                 CombineArchive_to_tuple(Rearranged(mB, p)) = CombineArchive_to_tuple(mB)

\* two manifests with the same two entries in different orders were compared
C28_Witness ==
    /\ mOp = "is_equal"
    /\ Len(mA) = 2
    /\ mA[1] # mA[2]
    /\ mB = <<mA[2], mA[1]>>
    /\ mRes.val = TRUE
    /\ CombineArchive_to_tuple(mA) = CombineArchive_to_tuple(mB)

(***************************************************************************)
(* Format registry: regular expressions (Python's re, the part the         *)
(* patterns use: literals, escapes, '^', '$', '.', '?', groups with '|')   *)
(***************************************************************************)
\* the character of the string s at position i (1-based)
char_at(s, i) == SubSeq(s, i, i)

\* the characters of a pattern that are not literals
Metacharacters == {"\\", "^", "$", ".", "?", "(", ")", "|"}

\* the index of the first metacharacter of p[i..j], or j + 1
next_metacharacter(p, i, j) ==
    LET found == { k \in i..j : char_at(p, k) \in Metacharacters }
    IN IF found = {} THEN j + 1 ELSE CHOOSE k \in found : \A m \in found : k <= m

RECURSIVE closing_paren(_, _, _)
\* the index of the ')' that closes the group p[i..] is in, depth groups opened since
closing_paren(p, i, depth) ==
    LET k == next_metacharacter(p, i, Len(p))
    IN IF k > Len(p) THEN k
       ELSE IF char_at(p, k) = "\\" THEN closing_paren(p, k + 2, depth)
       ELSE IF char_at(p, k) = "(" THEN closing_paren(p, k + 1, depth + 1)
       ELSE IF char_at(p, k) = ")"
            THEN IF depth = 0 THEN k ELSE closing_paren(p, k + 1, depth - 1)
       ELSE closing_paren(p, k + 1, depth)

RECURSIVE top_bar(_, _, _)
\* the index of the first '|' of p[i..j] outside any group, or 0
top_bar(p, i, j) ==
    LET k == next_metacharacter(p, i, j)
    IN IF k > j THEN 0
       ELSE IF char_at(p, k) = "\\" THEN top_bar(p, k + 2, j)
       ELSE IF char_at(p, k) = "(" THEN top_bar(p, closing_paren(p, k + 1, 0) + 1, j)
       ELSE IF char_at(p, k) = "|" THEN k
       ELSE top_bar(p, k + 1, j)

RECURSIVE parse_alternatives(_, _, _)
RECURSIVE parse_sequence(_, _, _)
\* the items of the branch p[i..j]: literals, anchors and groups, each optional ('?') or not
parse_sequence(p, i, j) ==
    IF i > j THEN <<>>
    ELSE LET c == char_at(p, i)
             \* a run of literals stops before the one a '?' applies to
             stop == next_metacharacter(p, i, j)
             run_end == IF stop <= j /\ char_at(p, stop) = "?" THEN stop - 2 ELSE stop - 1
             item_end == IF c = "\\" THEN i + 1
                         ELSE IF c = "(" THEN closing_paren(p, i + 1, 0)
                         ELSE IF run_end > i THEN run_end
                         ELSE i
             optional == item_end < j /\ char_at(p, item_end + 1) = "?"
             next == IF optional THEN item_end + 2 ELSE item_end + 1
             item == IF c = "^" THEN [op |-> "at_beginning", optional |-> optional]
                     ELSE IF c = "$" THEN [op |-> "at_end", optional |-> optional]
                     ELSE IF c = "." THEN [op |-> "any", optional |-> optional]
                     ELSE IF c = "\\"
                          THEN [op |-> "literal", text |-> char_at(p, i + 1), optional |-> optional]
                     ELSE IF c = "("
                          THEN [op |-> "group", branches |-> parse_alternatives(p, i + 1, item_end - 1),
                                optional |-> optional]
                     ELSE [op |-> "literal", text |-> SubSeq(p, i, item_end), optional |-> optional]
         IN <<item>> \o parse_sequence(p, next, j)

\* the branches of p[i..j], which '|' separates
parse_alternatives(p, i, j) ==
    LET bar == top_bar(p, i, j)
    IN IF bar = 0 THEN <<parse_sequence(p, i, j)>>
       ELSE <<parse_sequence(p, i, bar - 1)>> \o parse_alternatives(p, bar + 1, j)

\* re.compile(pattern)
re_compile(pattern) == parse_alternatives(pattern, 1, Len(pattern))

\* '$', had it been left out of the patterns
at_end_anywhere(s, k) == TRUE

\* '$' at position k of s: the end of the string, or just before a newline that ends it
at_end(s, k) == k = Len(s) + 1 \/ (k = Len(s) /\ char_at(s, k) = "\n")

RECURSIVE match_alternatives(_, _, _, _)
RECURSIVE match_sequence(_, _, _, _)
\* the positions of s where a match of items[i..], started at a position of P, can end
match_sequence(items, i, s, P) ==
    IF i > Len(items) \/ P = {} THEN P
    ELSE LET item == items[i]
             matched ==
                 IF item.op = "at_beginning" THEN P \cap {1}
                 ELSE IF item.op = "at_end" THEN { k \in P : at_end(s, k) }
                 ELSE IF item.op = "any"
                      THEN { k + 1 : k \in { k \in P : k <= Len(s) /\ char_at(s, k) # "\n" } }
                 ELSE IF item.op = "group" THEN match_alternatives(item.branches, 1, s, P)
                 ELSE { k + Len(item.text) :
                          k \in { k \in P : /\ k + Len(item.text) - 1 <= Len(s)
                                            /\ SubSeq(s, k, k + Len(item.text) - 1) = item.text } }
         IN match_sequence(items, i + 1, s, IF item.optional THEN P \cup matched ELSE matched)

\* the positions of s where a match of one of branches[i..], started at a position of P, can end
match_alternatives(branches, i, s, P) ==
    IF i > Len(branches) THEN {}
    ELSE match_sequence(branches[i], 1, s, P) \cup match_alternatives(branches, i + 1, s, P)

\* compiled.match(string) is not None: the pattern matches at the start of the string
compiled_match(compiled, string) == match_alternatives(compiled, 1, string, {1}) # {}

\* re.match(pattern, string) is not None
re_match(pattern, string) == compiled_match(re_compile(pattern), string)

\* CombineArchiveContentFormatPattern: the members in the order they are defined
CombineArchiveContentFormatPattern == <<
    [name |-> "ACTIONSCRIPT", value |-> "^https?://purl\\.org/NET/mediatypes/text/x-actionscript$"],
    [name |-> "ADOBE_FLASH", value |-> "^https?://purl\\.org/NET/mediatypes/(application/x-shockwave-flash|application/vnd\\.adobe\\.flash-movie)$"],
    [name |-> "AI", value |-> "^https?://purl\\.org/NET/mediatypes/(application/pdf|application/postscript)$"],
    [name |-> "BioPAX", value |-> "^https?://identifiers\\.org/combine\\.specifications/biopax($|\\.)"],
    [name |-> "BMP", value |-> "^https?://purl\\.org/NET/mediatypes/image/bmp$"],
    [name |-> "BNGL", value |-> "^https?://purl\\.org/NET/mediatypes/text/bngl\\+plain($|\\.)"],
    [name |-> "BOURNE_SHELL", value |-> "^https?://purl\\.org/NET/mediatypes/(text/x-sh|application/x-sh)$"],
    [name |-> "C", value |-> "^https?://purl\\.org/NET/mediatypes/text/x-c$"],
    [name |-> "CellML", value |-> "^https?://identifiers\\.org/combine\\.specifications/cellml($|\\.)"],
    [name |-> "CPP_HEADER", value |-> "^https?://purl\\.org/NET/mediatypes/text/x-c\\+\\+hdr$"],
    [name |-> "CPP_SOURCE", value |-> "^https?://purl\\.org/NET/mediatypes/text/x-c\\+\\+src$"],
    [name |-> "CopasiML", value |-> "^https?://purl\\.org/NET/mediatypes/application/x-copasi$"],
    [name |-> "CSS", value |-> "^https?://purl\\.org/NET/mediatypes/text/css$"],
    [name |-> "CSV", value |-> "^https?://purl\\.org/NET/mediatypes/text/csv$"],
    [name |-> "DLL", value |-> "^https?://purl\\.org/NET/mediatypes/application/vnd\\.microsoft\\.portable-executable$"],
    [name |-> "DOC", value |-> "^https?://purl\\.org/NET/mediatypes/application/msword$"],
    [name |-> "DOCX", value |-> "^https?://purl\\.org/NET/mediatypes/application/vnd\\.openxmlformats-officedocument\\.wordprocessingml\\.document$"],
    [name |-> "EPS", value |-> "^https?://purl\\.org/NET/mediatypes/(application/postscript|application/eps|application/x-eps|image/eps|image/x-eps)$"],
    [name |-> "Escher", value |-> "^https?://purl\\.org/NET/mediatypes/application/escher\\+json$"],
    [name |-> "GENESIS", value |-> "^https?://purl\\.org/NET/mediatypes/text/x-genesis$"],
    [name |-> "GIF", value |-> "^https?://purl\\.org/NET/mediatypes/image/gif$"],
    [name |-> "GINML", value |-> "^https?://purl\\.org/NET/mediatypes/application/ginml\\+xml$"],
    [name |-> "GMSH_MESH", value |-> "^https?://purl\\.org/NET/mediatypes/model/mesh$"],
    [name |-> "GRAPHML", value |-> "^https?://purl\\.org/NET/mediatypes/(application/graphml\\+xml|application/x-graphml\\+xml)$"],
    [name |-> "HDF5", value |-> "^https?://purl\\.org/NET/mediatypes/application/x-hdf5?$"],
    [name |-> "HOC", value |-> "^https?://purl\\.org/NET/mediatypes/text/x-hoc$"],
    [name |-> "HTML", value |-> "^https?://purl\\.org/NET/mediatypes/(text/html|application/xhtml\\+xml)$"],
    [name |-> "ICO", value |-> "^https?://purl\\.org/NET/mediatypes/(image/x-icon|image/vnd\\.microsoft\\.icon)$"],
    [name |-> "INI", value |-> "^https?://purl\\.org/NET/mediatypes/text/x-ini$"],
    [name |-> "IPython_Notebook", value |-> "^https?://purl\\.org/NET/mediatypes/application/x-ipynb\\+json$"],
    [name |-> "JAVA_ARCHIVE", value |-> "^https?://purl\\.org/NET/mediatypes/(application/java-archive|application/x-java-archive|application/jar|application/x-jar)$"],
    [name |-> "JAVA_CLASS", value |-> "^https?://purl\\.org/NET/mediatypes/(application/java-vm|application/x-java-vm|application/java|application/x-java)$"],
    [name |-> "JAVA_SOURCE", value |-> "^https?://purl\\.org/NET/mediatypes/(text/x-java|text/x-java-source)$"],
    [name |-> "JAVASCRIPT", value |-> "^https?://purl\\.org/NET/mediatypes/(text/javascript|text/x-javascript|application/javascript|application/x-javascript)$"],
    [name |-> "JPEG", value |-> "^https?://purl\\.org/NET/mediatypes/image/jpeg$"],
    [name |-> "JSON", value |-> "^https?://purl\\.org/NET/mediatypes/application/json$"],
    [name |-> "Kappa", value |-> "^https?://purl\\.org/NET/mediatypes/text/x-kappa$"],
    [name |-> "LEMS", value |-> "^https?://purl\\.org/NET/mediatypes/application/lems\\+xml$"],
    [name |-> "MAPLE_WORKSHEET", value |-> "^https?://purl\\.org/NET/mediatypes/application/x-maple$"],
    [name |-> "MARKDOWN", value |-> "^https?://purl\\.org/NET/mediatypes/text/markdown$"],
    [name |-> "MASS", value |-> "^https?://purl\\.org/NET/mediatypes/application/mass\\+json$"],
    [name |-> "MATHEMATICA_NOTEBOOK", value |-> "^https?://purl\\.org/NET/mediatypes/application/vnd\\.wolfram\\.mathematica$"],
    [name |-> "MATLAB", value |-> "^https?://purl\\.org/NET/mediatypes/text/x-matlab$"],
    [name |-> "MATLAB_DATA", value |-> "^https?://purl\\.org/NET/mediatypes/application/x-matlab-data$"],
    [name |-> "MATLAB_FIGURE", value |-> "^https?://purl\\.org/NET/mediatypes/application/matlab-fig$"],
    [name |-> "MorpheusML", value |-> "^https?://purl\\.org/NET/mediatypes/application/morpheusml\\+xml$"],
    [name |-> "NCS", value |-> "^https?://purl\\.org/NET/mediatypes/text/x-ncs$"],
    [name |-> "NeuroML", value |-> "^https?://identifiers\\.org/combine\\.specifications/neuroml($|\\.)"],
    [name |-> "NEURON_SESSION", value |-> "^https?://purl\\.org/NET/mediatypes/text/x-nrn-ses$"],
    [name |-> "NMODL", value |-> "^https?://purl\\.org/NET/mediatypes/text/x-nmodl$"],
    [name |-> "NuML", value |-> "^https?://purl\\.org/NET/mediatypes/application/numl\\+xml$"],
    [name |-> "ODE", value |-> "^https?://purl\\.org/NET/mediatypes/text/x-(ode|xpp)$"],
    [name |-> "ODT", value |-> "^https?://purl\\.org/NET/mediatypes/application/vnd\\.oasis\\.opendocument\\.text$"],
    [name |-> "OMEX", value |-> "^https?://identifiers\\.org/combine\\.specifications/omex($|\\.)"],
    [name |-> "OMEX_MANIFEST", value |-> "^https?://identifiers\\.org/combine\\.specifications/omex-manifest($|\\.)"],
    [name |-> "OMEX_METADATA", value |-> "^https?://identifiers\\.org/combine\\.specifications/omex-metadata($|\\.)"],
    [name |-> "OWL", value |-> "^https?://purl\\.org/NET/mediatypes/application/rdf\\+xml$"],
    [name |-> "PDF", value |-> "^https?://purl\\.org/NET/mediatypes/application/pdf$"],
    [name |-> "PERL", value |-> "^https?://purl\\.org/NET/mediatypes/(text/x-perl|application/x-perl)$"],
    [name |-> "pharmML", value |-> "^https?://purl\\.org/NET/mediatypes/application/pharmml\\+xml$"],
    [name |-> "PHP", value |-> "^https?://purl\\.org/NET/mediatypes/(application/x-httpd-php|application/x-httpd-php-source|application/x-php|text/x-php)$"],
    [name |-> "PNG", value |-> "^https?://purl\\.org/NET/mediatypes/image/png$"],
    [name |-> "POSTSCRIPT", value |-> "^https?://purl\\.org/NET/mediatypes/application/postscript$"],
    [name |-> "PPT", value |-> "^https?://purl\\.org/NET/mediatypes/application/vnd\\.ms-powerpoint$"],
    [name |-> "PPTX", value |-> "^https?://purl\\.org/NET/mediatypes/application/vnd\\.openxmlformats-officedocument\\.presentationml\\.presentation$"],
    [name |-> "PSD", value |-> "^https?://purl\\.org/NET/mediatypes/(image/vnd\\.adobe\\.photoshop|image/psd|image/x-psd|application/photoshop|application/x-photoshop|application/psd|application/x-psd)$"],
    [name |-> "Python", value |-> "^https?://purl\\.org/NET/mediatypes/application/x-python-code$"],
    [name |-> "QUICKTIME", value |-> "^https?://purl\\.org/NET/mediatypes/(video/quicktime|image/mov)$"],
    [name |-> "R", value |-> "^https?://purl\\.org/NET/mediatypes/text/x-r$"],
    [name |-> "R_Project", value |-> "^https?://purl\\.org/NET/mediatypes/application/x-r-project$"],
    [name |-> "RBA", value |-> "^https?://purl\\.org/NET/mediatypes/application/rba\\+zip$"],
    [name |-> "RDF_XML", value |-> "^https?://purl\\.org/NET/mediatypes/application/rdf\\+xml$"],
    [name |-> "RST", value |-> "^https?://purl\\.org/NET/mediatypes/text/x-rst$"],
    [name |-> "RUBY", value |-> "^https?://purl\\.org/NET/mediatypes/text/x-ruby$"],
    [name |-> "SBGN", value |-> "^https?://identifiers\\.org/combine\\.specifications/sbgn($|\\.)"],
    [name |-> "SBML", value |-> "^https?://identifiers\\.org/combine\\.specifications/sbml($|\\.)"],
    [name |-> "SBOL", value |-> "^https?://identifiers\\.org/combine\\.specifications/sbol($|\\.)"],
    [name |-> "SBOL_VISUAL", value |-> "^https?://identifiers\\.org/combine\\.specifications/sbol-visual($|\\.)"],
    [name |-> "Scilab", value |-> "^https?://purl\\.org/NET/mediatypes/application/x-scilab$"],
    [name |-> "SED_ML", value |-> "^https?://identifiers\\.org/combine\\.specifications/sed\\-?ml($|\\.)"],
    [name |-> "SHOCKWAVE_FLASH", value |-> "^https?://purl\\.org/NET/mediatypes/(application/x-shockwave-flash|application/vnd\\.adobe\\.flash-movie)$"],
    [name |-> "SimBiology_Project", value |-> "^https?://purl\\.org/NET/mediatypes/application/x-sbproj$"],
    [name |-> "SLI", value |-> "^https?://purl\\.org/NET/mediatypes/text/x-sli$"],
    [name |-> "Smoldyn", value |-> "^https?://purl\\.org/NET/mediatypes/text/smoldyn\\+plain$"],
    [name |-> "SO", value |-> "^https?://purl\\.org/NET/mediatypes/application/x-sharedlib$"],
    [name |-> "SQL", value |-> "^https?://purl\\.org/NET/mediatypes/application/sql$"],
    [name |-> "SVG", value |-> "^https?://purl\\.org/NET/mediatypes/image/svg\\+xml$"],
    [name |-> "SVGZ", value |-> "^https?://purl\\.org/NET/mediatypes/image/svg\\+xml-compressed$"],
    [name |-> "TEXT", value |-> "^https?://purl\\.org/NET/mediatypes/text/plain$"],
    [name |-> "TIFF", value |-> "^https?://purl\\.org/NET/mediatypes/image/tiff$"],
    [name |-> "TSV", value |-> "^https?://purl\\.org/NET/mediatypes/text/tab-separated-values$"],
    [name |-> "Vega", value |-> "^https?://purl\\.org/NET/mediatypes/application/vnd\\.vega\\.v5\\+json$"],
    [name |-> "Vega_Lite", value |-> "^https?://purl\\.org/NET/mediatypes/application/vnd\\.vegalite\\.v3\\+json$"],
    [name |-> "VCML", value |-> "^https?://purl\\.org/NET/mediatypes/application/vcml\\+xml$"],
    [name |-> "WEBP", value |-> "^https?://purl\\.org/NET/mediatypes/image/webp$"],
    [name |-> "XLS", value |-> "^https?://purl\\.org/NET/mediatypes/application/vnd\\.ms-excel$"],
    [name |-> "XLSX", value |-> "^https?://purl\\.org/NET/mediatypes/application/vnd\\.openxmlformats-officedocument\\.spreadsheetml\\.sheet$"],
    [name |-> "XML", value |-> "^https?://purl\\.org/NET/mediatypes/application/xml$"],
    [name |-> "XPP", value |-> "^https?://purl\\.org/NET/mediatypes/text/x-(ode|xpp)$"],
    [name |-> "XPP_AUTO", value |-> "^https?://purl\\.org/NET/mediatypes/text/x-(ode|xpp)-auto$"],
    [name |-> "XPP_SET", value |-> "^https?://purl\\.org/NET/mediatypes/text/x-(ode|xpp)-set$"],
    [name |-> "XSL", value |-> "^https?://purl\\.org/NET/mediatypes/(application/xslfo\\+xml|text/xsl)$"],
    [name |-> "XUL", value |-> "^https?://purl\\.org/NET/mediatypes/text/xul$"],
    [name |-> "XYZ", value |-> "^https?://purl\\.org/NET/mediatypes/chemical/x-xyz$"],
    [name |-> "YAML", value |-> "^https?://purl\\.org/NET/mediatypes/application/x-yaml$"],
    [name |-> "ZGINML", value |-> "^https?://purl\\.org/NET/mediatypes/application/zginml\\+zip$"],
    [name |-> "ZIP", value |-> "^https?://purl\\.org/NET/mediatypes/application/zip$"],
    [name |-> "OTHER", value |-> "^https?://purl\\.org/NET/mediatypes/application/octet-stream$"]
>>

\* FormatRegistry: the table of (symbolic name, compiled pattern), loaded once
FormatRegistry ==
    [i \in 1..Len(CombineArchiveContentFormatPattern) |->
        [name |-> CombineArchiveContentFormatPattern[i].name,
         pattern |-> re_compile(CombineArchiveContentFormatPattern[i].value)]]

RECURSIVE resolve_between(_, _, _)
\* the name of the first of the entries from..to whose pattern matches uri, or None;
\* the entries are tried in table order, the first half before the second
resolve_between(uri, from, to) ==
    IF from = to
    THEN IF compiled_match(FormatRegistry[from].pattern, uri)
         THEN Some(FormatRegistry[from].name)
         ELSE None
    ELSE LET middle == (from + to) \div 2
             found == resolve_between(uri, from, middle)
         IN IF found # None THEN found ELSE resolve_between(uri, middle + 1, to)

\* FormatRegistry.resolve(uri)
resolve(uri) == resolve_between(uri, 1, Len(FormatRegistry))

\* the identifiers given to resolve, with the name re.match over the members gives each
PythonResult ==
    ("http://purl.org/NET/mediatypes/text/csv" :> Some("CSV")) @@
    ("https://purl.org/NET/mediatypes/text/csv" :> Some("CSV")) @@
    ("not-a-uri" :> None) @@
    ("http://purl.org/NET/mediatypes/text/csv\n" :> Some("CSV")) @@
    ("http://purl.org/NET/mediatypes/text/csvx" :> None) @@
    ("HTTP://purl.org/NET/mediatypes/text/csv" :> None) @@
    ("http://purlXorg/NET/mediatypes/text/csv" :> None) @@
    (" http://purl.org/NET/mediatypes/text/csv" :> None) @@
    ("http://identifiers.org/combine.specifications/omex" :> Some("OMEX")) @@
    ("http://identifiers.org/combine.specifications/omex-manifest" :> Some("OMEX_MANIFEST")) @@
    ("http://identifiers.org/combine.specifications/omex.version-1" :> Some("OMEX")) @@
    ("http://identifiers.org/combine.specifications/omexx" :> None) @@
    ("http://identifiers.org/combine.specifications/sbml.level-3.version-1" :> Some("SBML")) @@
    ("http://identifiers.org/combine.specifications/sed-ml" :> Some("SED_ML")) @@
    ("http://identifiers.org/combine.specifications/sedml" :> Some("SED_ML")) @@
    ("http://identifiers.org/combine.specifications/sed--ml" :> None) @@
    ("http://purl.org/NET/mediatypes/application/pdf" :> Some("AI")) @@
    ("http://purl.org/NET/mediatypes/application/PDF" :> None) @@
    ("http://purl.org/NET/mediatypes/application/postscript" :> Some("AI")) @@
    ("http://purl.org/NET/mediatypes/text/x-c" :> Some("C")) @@
    ("http://purl.org/NET/mediatypes/text/x-c++hdr" :> Some("CPP_HEADER")) @@
    ("http://purl.org/NET/mediatypes/application/x-hdf" :> Some("HDF5")) @@
    ("http://purl.org/NET/mediatypes/application/rdf+xml" :> Some("OWL")) @@
    ("http://purl.org/NET/mediatypes/text/x-xpp" :> Some("ODE")) @@
    ("http://purl.org/NET/mediatypes/application/octet-stream" :> Some("OTHER")) @@
    ("application/octet-stream" :> None)

UriUniverse == DOMAIN PythonResult

Resolve ==
    /\ Len(calls) < MaxCalls
    /\ \E uri \in UriUniverse : calls' = Append(calls, [uri |-> uri, name |-> resolve(uri)])
    /\ UNCHANGED <<mvars, avars>>

\* the registry is loaded, nothing has been resolved
InitFormat ==
    /\ RIdle
    /\ MIdle
    /\ AIdle

SpecFormat == InitFormat /\ [][Resolve]_vars

(***************************************************************************)
(* CombineArchiveContentFormat and the identifier written for a name       *)
(***************************************************************************)
\* CombineArchiveContentFormat: the members in the order they are defined
CombineArchiveContentFormat == <<
    [name |-> "ACTIONSCRIPT", value |-> "http://purl.org/NET/mediatypes/text/x-actionscript"],
    [name |-> "ADOBE_FLASH", value |-> "http://purl.org/NET/mediatypes/application/x-shockwave-flash"],
    [name |-> "AI", value |-> "http://purl.org/NET/mediatypes/application/pdf"],
    [name |-> "BioPAX", value |-> "http://identifiers.org/combine.specifications/biopax"],
    [name |-> "BMP", value |-> "http://purl.org/NET/mediatypes/image/bmp"],
    [name |-> "BNGL", value |-> "http://purl.org/NET/mediatypes/text/bngl+plain"],
    [name |-> "BOURNE_SHELL", value |-> "http://purl.org/NET/mediatypes/text/x-sh"],
    [name |-> "C", value |-> "http://purl.org/NET/mediatypes/text/x-c"],
    [name |-> "CellML", value |-> "http://identifiers.org/combine.specifications/cellml"],
    [name |-> "CopasiML", value |-> "http://purl.org/NET/mediatypes/application/x-copasi"],
    [name |-> "CPP_HEADER", value |-> "http://purl.org/NET/mediatypes/text/x-c++hdr"],
    [name |-> "CPP_SOURCE", value |-> "http://purl.org/NET/mediatypes/text/x-c++src"],
    [name |-> "CSS", value |-> "http://purl.org/NET/mediatypes/text/css"],
    [name |-> "CSV", value |-> "http://purl.org/NET/mediatypes/text/csv"],
    [name |-> "DLL", value |-> "http://purl.org/NET/mediatypes/application/vnd.microsoft.portable-executable"],
    [name |-> "DOC", value |-> "http://purl.org/NET/mediatypes/application/msword"],
    [name |-> "DOCX", value |-> "http://purl.org/NET/mediatypes/application/vnd.openxmlformats-officedocument.wordprocessingml.document"],
    [name |-> "EPS", value |-> "http://purl.org/NET/mediatypes/application/postscript"],
    [name |-> "Escher", value |-> "http://purl.org/NET/mediatypes/application/escher+json"],
    [name |-> "GENESIS", value |-> "http://purl.org/NET/mediatypes/text/x-genesis"],
    [name |-> "GIF", value |-> "http://purl.org/NET/mediatypes/image/gif"],
    [name |-> "GINML", value |-> "http://purl.org/NET/mediatypes/application/ginml+xml"],
    [name |-> "GMSH_MESH", value |-> "http://purl.org/NET/mediatypes/model/mesh"],
    [name |-> "GRAPHML", value |-> "http://purl.org/NET/mediatypes/application/graphml+xml"],
    [name |-> "HDF5", value |-> "http://purl.org/NET/mediatypes/application/x-hdf"],
    [name |-> "HOC", value |-> "http://purl.org/NET/mediatypes/text/x-hoc"],
    [name |-> "HTML", value |-> "http://purl.org/NET/mediatypes/text/html"],
    [name |-> "ICO", value |-> "http://purl.org/NET/mediatypes/image/x-icon"],
    [name |-> "INI", value |-> "http://purl.org/NET/mediatypes/text/x-ini"],
    [name |-> "IPython_Notebook", value |-> "http://purl.org/NET/mediatypes/application/x-ipynb+json"],
    [name |-> "JAVA_ARCHIVE", value |-> "http://purl.org/NET/mediatypes/application/java-archive"],
    [name |-> "JAVA_CLASS", value |-> "http://purl.org/NET/mediatypes/application/java-vm"],
    [name |-> "JAVA_SOURCE", value |-> "http://purl.org/NET/mediatypes/text/x-java"],
    [name |-> "JAVASCRIPT", value |-> "http://purl.org/NET/mediatypes/text/javascript"],
    [name |-> "JPEG", value |-> "http://purl.org/NET/mediatypes/image/jpeg"],
    [name |-> "JSON", value |-> "http://purl.org/NET/mediatypes/application/json"],
    [name |-> "Kappa", value |-> "http://purl.org/NET/mediatypes/text/x-kappa"],
    [name |-> "LEMS", value |-> "http://purl.org/NET/mediatypes/application/lems+xml"],
    [name |-> "MAPLE_WORKSHEET", value |-> "http://purl.org/NET/mediatypes/application/x-maple"],
    [name |-> "MARKDOWN", value |-> "http://purl.org/NET/mediatypes/text/markdown"],
    [name |-> "MASS", value |-> "http://purl.org/NET/mediatypes/application/mass+json"],
    [name |-> "MATHEMATICA_NOTEBOOK", value |-> "http://purl.org/NET/mediatypes/application/vnd.wolfram.mathematica"],
    [name |-> "MATLAB", value |-> "http://purl.org/NET/mediatypes/text/x-matlab"],
    [name |-> "MATLAB_DATA", value |-> "http://purl.org/NET/mediatypes/application/x-matlab-data"],
    [name |-> "MATLAB_FIGURE", value |-> "http://purl.org/NET/mediatypes/application/matlab-fig"],
    [name |-> "MorpheusML", value |-> "http://purl.org/NET/mediatypes/application/morpheusml+xml"],
    [name |-> "NCS", value |-> "http://purl.org/NET/mediatypes/text/x-ncs"],
    [name |-> "NeuroML", value |-> "http://identifiers.org/combine.specifications/neuroml"],
    [name |-> "NEURON_SESSION", value |-> "http://purl.org/NET/mediatypes/text/x-nrn-ses"],
    [name |-> "NMODL", value |-> "http://purl.org/NET/mediatypes/text/x-nmodl"],
    [name |-> "NuML", value |-> "http://purl.org/NET/mediatypes/application/numl+xml"],
    [name |-> "ODE", value |-> "http://purl.org/NET/mediatypes/text/x-ode"],
    [name |-> "ODT", value |-> "http://purl.org/NET/mediatypes/application/vnd.oasis.opendocument.text"],
    [name |-> "OMEX", value |-> "http://identifiers.org/combine.specifications/omex"],
    [name |-> "OMEX_MANIFEST", value |-> "http://identifiers.org/combine.specifications/omex-manifest"],
    [name |-> "OMEX_METADATA", value |-> "http://identifiers.org/combine.specifications/omex-metadata"],
    [name |-> "OWL", value |-> "http://purl.org/NET/mediatypes/application/rdf+xml"],
    [name |-> "PDF", value |-> "http://purl.org/NET/mediatypes/application/PDF"],
    [name |-> "PERL", value |-> "http://purl.org/NET/mediatypes/text/x-perl"],
    [name |-> "pharmML", value |-> "http://purl.org/NET/mediatypes/application/pharmml+xml"],
    [name |-> "PHP", value |-> "http://purl.org/NET/mediatypes/application/x-httpd-php"],
    [name |-> "PNG", value |-> "http://purl.org/NET/mediatypes/image/png"],
    [name |-> "POSTSCRIPT", value |-> "http://purl.org/NET/mediatypes/application/postscript"],
    [name |-> "PPT", value |-> "http://purl.org/NET/mediatypes/application/vnd.ms-powerpoint"],
    [name |-> "PPTX", value |-> "http://purl.org/NET/mediatypes/application/vnd.openxmlformats-officedocument.presentationml.presentation"],
    [name |-> "PSD", value |-> "http://purl.org/NET/mediatypes/image/vnd.adobe.photoshop"],
    [name |-> "Python", value |-> "http://purl.org/NET/mediatypes/application/x-python-code"],
    [name |-> "QUICKTIME", value |-> "http://purl.org/NET/mediatypes/video/quicktime"],
    [name |-> "R", value |-> "http://purl.org/NET/mediatypes/text/x-r"],
    [name |-> "R_Project", value |-> "http://purl.org/NET/mediatypes/application/x-r-project"],
    [name |-> "RBA", value |-> "http://purl.org/NET/mediatypes/application/rba+zip"],
    [name |-> "RDF_XML", value |-> "http://purl.org/NET/mediatypes/application/rdf+xml"],
    [name |-> "RST", value |-> "http://purl.org/NET/mediatypes/text/x-rst"],
    [name |-> "RUBY", value |-> "http://purl.org/NET/mediatypes/text/x-ruby"],
    [name |-> "SBGN", value |-> "http://identifiers.org/combine.specifications/sbgn"],
    [name |-> "SBML", value |-> "http://identifiers.org/combine.specifications/sbml"],
    [name |-> "SBOL", value |-> "http://identifiers.org/combine.specifications/sbol"],
    [name |-> "SBOL_VISUAL", value |-> "http://identifiers.org/combine.specifications/sbol-visual"],
    [name |-> "Scilab", value |-> "http://purl.org/NET/mediatypes/application/x-scilab"],
    [name |-> "SED_ML", value |-> "http://identifiers.org/combine.specifications/sed-ml"],
    [name |-> "SHOCKWAVE_FLASH", value |-> "http://purl.org/NET/mediatypes/application/x-shockwave-flash"],
    [name |-> "SimBiology_Project", value |-> "http://purl.org/NET/mediatypes/application/x-sbproj"],
    [name |-> "SLI", value |-> "http://purl.org/NET/mediatypes/text/x-sli"],
    [name |-> "Smoldyn", value |-> "http://purl.org/NET/mediatypes/text/smoldyn+plain"],
    [name |-> "SO", value |-> "http://purl.org/NET/mediatypes/application/x-sharedlib"],
    [name |-> "SQL", value |-> "http://purl.org/NET/mediatypes/application/sql"],
    [name |-> "SVG", value |-> "http://purl.org/NET/mediatypes/image/svg+xml"],
    [name |-> "SVGZ", value |-> "http://purl.org/NET/mediatypes/image/svg+xml-compressed"],
    [name |-> "TEXT", value |-> "http://purl.org/NET/mediatypes/text/plain"],
    [name |-> "TIFF", value |-> "http://purl.org/NET/mediatypes/image/tiff"],
    [name |-> "TSV", value |-> "http://purl.org/NET/mediatypes/text/tab-separated-values"],
    [name |-> "VCML", value |-> "http://purl.org/NET/mediatypes/application/vcml+xml"],
    [name |-> "Vega", value |-> "http://purl.org/NET/mediatypes/application/vnd.vega.v5+json"],
    [name |-> "Vega_Lite", value |-> "http://purl.org/NET/mediatypes/application/vnd.vegalite.v3+json"],
    [name |-> "WEBP", value |-> "http://purl.org/NET/mediatypes/image/webp"],
    [name |-> "XML", value |-> "http://purl.org/NET/mediatypes/application/xml"],
    [name |-> "XPP", value |-> "http://purl.org/NET/mediatypes/text/x-ode"],
    [name |-> "XPP_AUTO", value |-> "http://purl.org/NET/mediatypes/text/x-ode-auto"],
    [name |-> "XPP_SET", value |-> "http://purl.org/NET/mediatypes/text/x-ode-set"],
    [name |-> "XLS", value |-> "http://purl.org/NET/mediatypes/application/vnd.ms-excel"],
    [name |-> "XLSX", value |-> "http://purl.org/NET/mediatypes/application/vnd.openxmlformats-officedocument.spreadsheetml.sheet"],
    [name |-> "XSL", value |-> "http://purl.org/NET/mediatypes/application/xslfo+xml"],
    [name |-> "XUL", value |-> "http://purl.org/NET/mediatypes/text/xul"],
    [name |-> "XYZ", value |-> "http://purl.org/NET/mediatypes/chemical/x-xyz"],
    [name |-> "YAML", value |-> "http://purl.org/NET/mediatypes/application/x-yaml"],
    [name |-> "ZGINML", value |-> "http://purl.org/NET/mediatypes/application/zginml+zip"],
    [name |-> "ZIP", value |-> "http://purl.org/NET/mediatypes/application/zip"],
    [name |-> "OTHER", value |-> "http://purl.org/NET/mediatypes/application/octet-stream"]
>>

\* the names a table of members defines
member_names(members) == { members[i].name : i \in 1..Len(members) }

\* CombineArchiveContentFormat[name].value
canonical_uri(name) ==
    CombineArchiveContentFormat[
        CHOOSE i \in 1..Len(CombineArchiveContentFormat) : CombineArchiveContentFormat[i].name = name].value

\* what one entry written for a name carries and what reading it back gives
Written(name, uri, resolved) == [member |-> name, uri |-> uri, name |-> resolved]

\* an entry is written with the identifier of a name of
\* CombineArchiveContentFormat, CombineArchiveContentFormat[name].value, and
\* the identifier is resolved when the entry is read back
WriteFormat(name) ==
    /\ calls = <<>>
    /\ calls' = <<Written(name, canonical_uri(name), resolve(canonical_uri(name)))>>
    /\ UNCHANGED <<mvars, avars>>

NextRegistry == \E name \in member_names(CombineArchiveContentFormat) : WriteFormat(name)

SpecRegistry == InitFormat /\ [][NextRegistry]_vars

(***************************************************************************)
(* Coordinate interleaving. An integer is the set of the positions of its  *)
(* one bits; a numpy int64 is a set of positions below 64, position 63     *)
(* being the sign                                                          *)
(***************************************************************************)
\* the bits taken from each coordinate: range(32), np.arange(0, 32, 1)
CoordinateBits == 32

\* the width of the integers np.arange yields
WordBits == 64

\* the loops as written: over range(32), on Python's integers
\* (controllers/interleave_coordinates.py); over np.arange(0, 32, 1), on
\* int64 (util/ and utils/coordinate_interleaver.py), where a shift by 64
\* or more gives 0 or the sign (numpy's npy_lshift and npy_rshift) or, in a
\* build that leaves it to the processor, shifts by the count modulo 64
LoopKinds == { "range", "arange", "arange processor shift" }

\* 1 << k
lshift(kind, k) ==
    IF kind = "range" \/ k < WordBits THEN {k}
    ELSE IF kind = "arange" THEN {}
    ELSE {k % WordBits}

\* (value >> k) & 1 is 1
rshift_bit(kind, value, k) ==
    IF kind = "range" \/ k < WordBits THEN k \in value
    ELSE IF kind = "arange" THEN (WordBits - 1) \in value
    ELSE (k % WordBits) \in value

\* the pairs (i, j) of the loops with bit i of args[j] set
set_bits(args) == { p \in (0..(CoordinateBits - 1)) \X (1..Len(args)) : p[1] \in args[p[2]] }

\* interleave_bits(*args): result |= ((arg >> i) & 1) << (i * num_values + j)
interleave_bits(kind, args) ==
    UNION { lshift(kind, p[1] * Len(args) + (p[2] - 1)) : p \in set_bits(args) }

\* deinterleave_bits(value, num_values):
\* results[j] |= ((value >> (i * num_values + j)) & 1) << i
deinterleave_bits(kind, value, num_values) ==
    [j \in 1..num_values |->
        { i \in 0..(CoordinateBits - 1) : rshift_bit(kind, value, i * num_values + (j - 1)) }]

\* the coordinates given: 0, 12, 2^20, 2^21 and 2^32 - 1
CoordinateUniverse == { {}, {2, 3}, {20}, {21}, 0..(CoordinateBits - 1) }

\* coordinates_to_id(x, y, z)
CoordinatesToId(kind, x, y, z) ==
    /\ calls = <<>>
    /\ calls' = <<[op |-> "coordinates_to_id", kind |-> kind, coordinates |-> <<x, y, z>>,
                   id |-> interleave_bits(kind, <<x, y, z>>)]>>
    /\ UNCHANGED <<mvars, avars>>

\* id_to_coordinates(id_value) on the id coordinates_to_id returned
IdToCoordinates ==
    /\ Len(calls) = 1
    /\ calls[1].op = "coordinates_to_id"
    /\ calls' = Append(calls, [op |-> "id_to_coordinates", kind |-> calls[1].kind,
                               coordinates |-> deinterleave_bits(calls[1].kind, calls[1].id, 3),
                               id |-> calls[1].id])
    /\ UNCHANGED <<mvars, avars>>

NextInterleave ==
    \/ \E kind \in LoopKinds, x \in CoordinateUniverse, y \in CoordinateUniverse, z \in CoordinateUniverse :
          CoordinatesToId(kind, x, y, z)
    \/ IdToCoordinates

SpecInterleave == InitFormat /\ [][NextInterleave]_vars

(***************************************************************************)
(* CombineArchiveZipReader.run, CombineArchiveReader.read_manifest and     *)
(* CombineArchiveReader.run                                                *)
(***************************************************************************)
\* members of CombineArchiveContentFormat
Format_OMEX == "http://identifiers.org/combine.specifications/omex"

Format_OMEX_METADATA == "http://identifiers.org/combine.specifications/omex-metadata"

Format_SED_ML == "http://identifiers.org/combine.specifications/sed-ml"

Format_ZIP == "http://purl.org/NET/mediatypes/application/zip"

Format_SMOLDYN == "http://purl.org/NET/mediatypes/text/smoldyn+plain"

\* the value of the member of CombineArchiveContentFormatPattern called name
pattern_value(name) ==
    CombineArchiveContentFormatPattern[
        CHOOSE i \in 1..Len(CombineArchiveContentFormatPattern) :
            CombineArchiveContentFormatPattern[i].name = name].value

\* the formats the manifests that are read carry
FormatUniverse ==
    { Format_OMEX, "https://identifiers.org/combine.specifications/omex.version-1",
      Format_OMEX_METADATA, Format_SED_ML, Format_ZIP, Format_SMOLDYN }

\* re.compile of the patterns CombineArchiveReader.run matches formats with
compiled_OMEX == re_compile(pattern_value("OMEX"))

compiled_OMEX_METADATA == re_compile(pattern_value("OMEX_METADATA"))

\* re.match(CombineArchiveContentFormatPattern.OMEX, format) is not None
match_OMEX(format) == compiled_match(compiled_OMEX, format)

\* re.match(CombineArchiveContentFormatPattern.OMEX_METADATA.value, format) is not None
match_OMEX_METADATA(format) == compiled_match(compiled_OMEX_METADATA, format)

\* os.path.relpath(location, '.') of a relative location
relpath(location) == normpath(location)

\* os.path.splitext(archive_path)[1] == '.sedml'
splitext_is_sedml(archive_path) ==
    /\ archive_path # <<>>
    /\ Len(archive_path[Len(archive_path)]) > 1
    /\ archive_path[Len(archive_path)][Len(archive_path[Len(archive_path)])] = ".sedml"

\* CombineArchiveZipReader.run(in_file): one content per member, SED-ML for
\* '.sedml' and no format otherwise; a missing file or a file that is no zip
\* raises ValueError, a directory IsADirectoryError
zip_reader_run(in_file, files, D) ==
    IF in_file \in D THEN [outcome |-> "IsADirectoryError", contents |-> <<>>]
    ELSE IF ~is_zipfile(in_file, files) THEN [outcome |-> "ValueError", contents |-> <<>>]
    ELSE [outcome |-> "returned",
          contents |-> [i \in 1..Len(files[in_file].contents) |->
              CombineArchiveContent(Some(files[in_file].contents[i].archive_path),
                                    IF splitext_is_sedml(files[in_file].contents[i].archive_path)
                                    THEN Some(Format_SED_ML) ELSE None,
                                    Some(FALSE))]]

\* what a call on a CombineArchiveReader gives: how it ended, the contents
\* returned, and what it appended to self.errors and self.warnings
Read(outcome, contents, errors, warnings) ==
    [outcome |-> outcome, contents |-> contents, errors |-> errors, warnings |-> warnings]

\* the fallback of read_manifest: the members of the zip archive, and the
\* archive itself as a ZIP file
read_manifest_from_zip(archive_filename, files, D) ==
    LET zip == zip_reader_run(archive_filename, files, D)
    IN IF zip.outcome = "returned"
       THEN Read("returned",
                 Append(zip.contents, CombineArchiveContent(Some(<<N_dot>>), Some(Format_ZIP), Some(FALSE))),
                 <<>>, <<>>)
       ELSE IF zip.outcome = "ValueError"
            THEN Read("returned", <<>>, <<"is not a valid zip file">>, <<>>)
            ELSE Read(zip.outcome, <<>>, <<>>, <<>>)

\* read_manifest, had it returned the entries of a manifest with errors
reader_read_manifest_lenient(filename, archive_filename, validate, log, files, D) ==
    IF filename \in DOMAIN files /\ files[filename].kind = "manifest"
    THEN Read("returned", read_manifest(files[filename]), log.errors, log.warnings)
    ELSE Read("AttributeError", <<>>, <<>>, <<>>)

\* CombineArchiveReader.read_manifest(filename, archive_filename, config),
\* with validate the value of config.VALIDATE_OMEX_MANIFESTS and log the
\* error log libcombine reports for the manifest
reader_read_manifest(filename, archive_filename, validate, log, files, D) ==
    IF ~(filename \in DOMAIN files /\ files[filename].kind = "manifest")
    THEN \* no CaOmexManifest: ['...'].format(filename) is evaluated first
         IF validate \/ archive_filename = None
         THEN Read("AttributeError", <<>>, <<>>, <<>>)
         ELSE read_manifest_from_zip(archive_filename[1], files, D)
    ELSE IF validate \/ archive_filename = None
         THEN IF log.errors # <<>>
              THEN Read("returned", <<>>, log.errors, log.warnings)
              ELSE Read("returned", read_manifest(files[filename]), log.errors, log.warnings)
         ELSE IF log.errors # <<>>
              THEN read_manifest_from_zip(archive_filename[1], files, D)
              ELSE Read("returned", read_manifest(files[filename]), <<>>, <<>>)

\* the manifest libcombine finds in a zip archive: the member manifest.xml
archive_manifest(zip) ==
    LET named == { i \in 1..Len(zip.contents) : zip.contents[i].archive_path = <<N_manifest_xml>> }
    IN IF named = {} THEN NoFile
       ELSE zip.contents[CHOOSE i \in named : \A j \in named : j <= i].data

\* archive_comb.initializeFromArchive(in_file)
initializeFromArchive(in_file, files) ==
    is_zipfile(in_file, files) /\ archive_manifest(files[in_file]).kind = "manifest"

\* a format that is neither None nor ''
has_format(content) == content.format # None /\ content.format[1] # ""

\* the loop over archive_comb.getAllLocations(): one content per entry that
\* libcombine lists, master False unless set and true
contents_of_locations(entries) ==
    [i \in 1..Len(entries) |->
        CombineArchiveContent(entries[i].location, entries[i].format,
                              Some(entries[i].master # None /\ entries[i].master[1]))]

\* the OMEX metadata entries of the manifest whose location is not among the
\* contents yet, in manifest order
RECURSIVE append_metadata(_, _)
append_metadata(contents, manifest_contents) ==
    IF manifest_contents = <<>> THEN contents
    ELSE LET c == Head(manifest_contents)
             locations == { relpath(contents[i].location[1]) : i \in 1..Len(contents) }
         IN append_metadata(
                IF has_format(c) /\ match_OMEX_METADATA(c.format[1]) /\ relpath(c.location[1]) \notin locations
                THEN Append(contents, c) ELSE contents,
                Tail(manifest_contents))

\* the manifest names its parent archive: an entry at '.' with an OMEX format
manifest_includes_archive(manifest_contents) ==
    \E i \in 1..Len(manifest_contents) :
        /\ relpath(manifest_contents[i].location[1]) = <<N_dot>>
        /\ has_format(manifest_contents[i])
        /\ match_OMEX(manifest_contents[i].format[1])

\* one error per entry at '.' whose format is not an OMEX format
archive_format_errors(manifest_contents) ==
    LET wrong(c) == /\ relpath(c.location[1]) = <<N_dot>>
                    /\ has_format(c)
                    /\ ~match_OMEX(c.format[1])
    IN [i \in 1..Len(SelectSeq(manifest_contents, wrong)) |-> "The format of the archive must be OMEX"]

\* what CombineArchiveReader.run gives: as Read, and the filesystem after it
Ran(read, files, D) == [read |-> read, files |-> files, dirs |-> D]

\* the self-reference check of run, had a manifest without its parent
\* archive been an error
self_reference_strict(manifest_contents) ==
    [errors |-> archive_format_errors(manifest_contents)
                  \o (IF manifest_includes_archive(manifest_contents) THEN <<>>
                      ELSE <<"The manifest does not include its parent COMBINE/OMEX archive">>),
     warnings |-> <<>>]

\* the self-reference check of run under VALIDATE_OMEX_MANIFESTS: what it
\* appends to self.errors and self.warnings
self_reference(manifest_contents) ==
    [errors |-> archive_format_errors(manifest_contents),
     warnings |-> IF manifest_includes_archive(manifest_contents) THEN <<>>
                  ELSE <<"The manifest does not include its parent COMBINE/OMEX archive">>]

\* the end of run: the warnings are passed to warn, errors raise ValueError,
\* otherwise the archive is returned
reader_run_end(contents, errors, warnings, files, D) ==
    IF warnings # <<>> /\ warn(2) # "warned"
    THEN Ran(Read(warn(2), <<>>, errors, warnings), files, D)
    ELSE IF errors # <<>>
         THEN Ran(Read("ValueError", <<>>, errors, warnings), files, D)
         ELSE Ran(Read("returned", contents, errors, warnings), files, D)

\* run from the return of read_manifest on: the metadata entries, then the
\* self-reference check
reader_run_manifest(contents, manifest, checked, include_omex_metadata_files, errors1, warnings1, files, D) ==
    IF manifest.outcome # "returned"
    THEN Ran(Read(manifest.outcome, <<>>, errors1 \o manifest.errors, warnings1 \o manifest.warnings), files, D)
    ELSE reader_run_end(IF include_omex_metadata_files
                        THEN append_metadata(contents, manifest.contents)
                        ELSE contents,
                        errors1 \o manifest.errors \o checked.errors,
                        warnings1 \o manifest.warnings \o checked.warnings,
                        files, D)

\* what the self-reference check appends for the manifest read_manifest gave
reader_run_checked(contents, manifest, include_omex_metadata_files, validate, errors1, warnings1, files, D) ==
    reader_run_manifest(contents, manifest,
                        IF validate /\ manifest.outcome = "returned"
                        THEN self_reference(manifest.contents)
                        ELSE [errors |-> <<>>, warnings |-> <<>>],
                        include_omex_metadata_files, errors1, warnings1, files, D)

\* run on an archive libcombine opened: the contents it lists, the
\* extraction into out_dir (files and D are the filesystem after it), and
\* read_manifest on out_dir/manifest.xml
reader_run_archive_opened(in_file, out_dir, entries, include_omex_metadata_files, validate, log, lists_metadata, errors1, warnings1, files, D) ==
    reader_run_checked(
        contents_of_locations(SelectSeq(entries, LAMBDA c :
            lists_metadata \/ ~(has_format(c) /\ match_OMEX_METADATA(c.format[1])))),
        reader_read_manifest(join(out_dir, N_manifest_xml), Some(in_file), validate, log, files, D),
        include_omex_metadata_files, validate, errors1, warnings1, files, D)

\* run on a file that is no COMBINE/OMEX archive, without validation
reader_run_plain_zip(in_file, out_dir, zip, files, D) ==
    IF zip.outcome = "returned"
    THEN Ran(Read(IF warn(2) = "warned" THEN "returned" ELSE warn(2), zip.contents, <<>>,
                  <<"is a plain zip archive, not a COMBINE/OMEX archive">>),
             extractall_files(files[in_file], out_dir, files),
             extractall_dirs(files[in_file], out_dir, D))
    ELSE Ran(Read("ValueError", <<>>, <<"is not a valid COMBINE/OMEX archive">>, <<>>), files, D)

\* run on a file, with archive_initialized what initializeFromArchive gave
reader_run_file(in_file, out_dir, archive_initialized, include_omex_metadata_files, validate, log, lists_metadata, files, D) ==
    IF (~archive_initialized \/ log.errors # <<>>) /\ ~validate
    THEN reader_run_plain_zip(in_file, out_dir, zip_reader_run(in_file, files, D), files, D)
    ELSE IF ~archive_initialized
         THEN Ran(Read("ValueError", <<>>, <<"is not a valid COMBINE/OMEX archive">>, <<>>), files, D)
         ELSE reader_run_archive_opened(
                  in_file, out_dir, read_manifest(archive_manifest(files[in_file])),
                  include_omex_metadata_files, validate, log, lists_metadata,
                  IF validate THEN log.errors ELSE <<>>,
                  IF validate THEN log.warnings ELSE <<>>,
                  extractall_files(files[in_file], out_dir, files),
                  extractall_dirs(files[in_file], out_dir, D))

\* CombineArchiveReader.run(in_file, out_dir, include_omex_metadata_files,
\* config), with validate the value of config.VALIDATE_OMEX_MANIFESTS, log
\* the error log libcombine reports for the manifest, and lists_metadata
\* whether getAllLocations lists the OMEX metadata entries
reader_run(in_file, out_dir, include_omex_metadata_files, validate, log, lists_metadata, files, D) ==
    IF in_file \notin DOMAIN files
    THEN Ran(Read("ValueError", <<>>, <<"is not a file">>, <<>>), files, D)
    ELSE reader_run_file(in_file, out_dir, initializeFromArchive(in_file, files),
                         include_omex_metadata_files, validate, log, lists_metadata, files, D)

\* the contents of the manifests that are read
ReadContentUniverse ==
    { CombineArchiveContent(Some(<<N_dot>>), Some(Format_OMEX), Some(FALSE)),
      CombineArchiveContent(Some(<<N_dot>>), Some("https://identifiers.org/combine.specifications/omex.version-1"), None),
      CombineArchiveContent(Some(<<N_dot>>), Some(Format_ZIP), Some(FALSE)),
      CombineArchiveContent(Some(<<N_dot, N_dot>>), Some(Format_OMEX_METADATA), Some(FALSE)),
      CombineArchiveContent(Some(<<N_dot>>), None, Some(FALSE)),
      CombineArchiveContent(Some(<<N_model_txt>>), Some(Format_SMOLDYN), Some(TRUE)),
      CombineArchiveContent(Some(<<N_dot, N_simulation_sedml>>), Some(Format_SED_ML), Some(TRUE)),
      CombineArchiveContent(Some(<<N_metadata_rdf>>), Some(Format_OMEX_METADATA), Some(FALSE)) }

RECURSIVE ReadListsUpTo(_)
ReadListsUpTo(n) ==
    IF n = 0 THEN { <<>> }
    ELSE LET shorter == ReadListsUpTo(n - 1)
         IN shorter \cup { Append(l, c) : l \in { x \in shorter : Len(x) = n - 1 }, c \in ReadContentUniverse }

ReadManifests == ReadListsUpTo(MaxContents)

\* the filesystem with the manifest contents in an archive, and on its own
ReadFiles(contents) ==
    (<<N_arch_omex>> :> ZipFile(<< Member(<<N_manifest_xml>>, write_manifest(contents)),
                                   Member(<<N_model_txt>>, DataFile("model")),
                                   Member(<<N_simulation_sedml>>, DataFile("sedml")) >>))
    @@ (<<N_bad_omex>> :> Garbage)
    @@ (<<N_proj, N_manifest_xml>> :> write_manifest(contents))

\* a CombineArchiveReader has been constructed
InitRead ==
    /\ mA \in ReadManifests
    /\ mB = <<>>
    /\ mPath = <<>>
    /\ mOp = "init"
    /\ mRes = NoResult
    /\ fs = ReadFiles(mA)
    /\ dirs = { <<N_proj>> }
    /\ svc = <<>>
    /\ hist = <<>>
    /\ last = <<>>
    /\ RIdle

\* what a call was given
Given(filename, validate, log) == [filename |-> filename, validate |-> validate, log |-> log]

\* CombineArchiveReader().run(in_file, 'out', include_omex_metadata_files, config)
RRun ==
    /\ mOp = "init"
    /\ \E in_file \in { <<N_arch_omex>>, <<N_bad_omex>>, <<N_new_omex_bak>> },
          include_omex_metadata_files \in BOOLEAN, validate \in BOOLEAN,
          log \in ErrorLogs, lists_metadata \in BOOLEAN :
          LET ran == reader_run(in_file, <<N_out>>, include_omex_metadata_files, validate, log,
                                lists_metadata, fs, dirs)
          IN /\ fs' = ran.files
             /\ dirs' = ran.dirs
             /\ mRes' = Value(ran.read)
             /\ mB' = Given(in_file, validate, log)
    /\ mOp' = "run"
    /\ UNCHANGED <<mA, mPath, svc, hist, last, rvars>>

\* CombineArchiveReader().read_manifest(filename, archive_filename, config)
RReadManifest ==
    /\ mOp = "init"
    /\ \E filename \in { <<N_proj, N_manifest_xml>>, <<N_proj, N_model_txt>> },
          archive_filename \in { None, Some(<<N_arch_omex>>), Some(<<N_bad_omex>>), Some(<<N_proj>>) },
          validate \in BOOLEAN, log \in ErrorLogs :
          /\ mRes' = Value(reader_read_manifest(filename, archive_filename, validate, log, fs, dirs))
          /\ mB' = Given(filename, validate \/ archive_filename = None, log)
          /\ mPath' = archive_filename
    /\ mOp' = "read_manifest"
    /\ UNCHANGED <<mA, fs, dirs, svc, hist, last, rvars>>

NextRead == RRun \/ RReadManifest

SpecRead == InitRead /\ [][NextRead]_vars

(***************************************************************************)
(* exec.py: exec_combine_archive_and_simularium, from the listing of the   *)
(* working directory on. File names are strings here.                      *)
(***************************************************************************)
\* the most files os.listdir(working_dir) returns
MaxListing == 2

\* word in file
contains(file, word) ==
    \E i \in 1..(Len(file) - Len(word) + 1) : SubSeq(file, i, i + Len(word) - 1) = word

\* the content exec_combine_archive_and_simularium builds for a listed file;
\* "'model' and not 'out' in file" is "not ('out' in file)"
classify(file) ==
    IF contains(file, "sedml")
    THEN CombineArchiveContent(Some(file), Some("http://identifiers.org/combine.specifications/sed-ml"), Some(TRUE))
    ELSE IF contains(file, "simularium") \/ contains(file, "manifest")
    THEN CombineArchiveContent(Some(file), Some("application/octet-stream"), Some(FALSE))
    ELSE IF ~contains(file, "out")
    THEN CombineArchiveContent(Some(file), Some("http://purl.org/NET/mediatypes/text/smoldyn+plain"), Some(FALSE))
    ELSE IF contains(file, "out")
    THEN CombineArchiveContent(Some(file), Some("text/plain"), Some(FALSE))
    ELSE IF contains(file, "h5")
    THEN CombineArchiveContent(Some(file), Some("application/x-hdf5"), Some(FALSE))
    ELSE CombineArchiveContent(Some(file), None, Some(FALSE))

\* CombineArchiveWriter.run(archive, in_dir, out_file): the archive file
\* with the manifest and the files of the contents
combine_writer_run(contents, in_dir, out_file, files) ==
    [x \in DOMAIN files \cup {out_file} |->
        IF x = out_file
        THEN ZipFile(<<Member(<<"manifest.xml">>, write_manifest(contents))>>
                     \o [i \in 1..Len(contents) |->
                            Member(<<contents[i].location[1]>>, files[<<in_dir, contents[i].location[1]>>])])
        ELSE files[x]]

\* the files a working directory can hold after the simulations ran
ListedFiles ==
    { "simulation.sedml", "model.txt", "modelout.txt", "result.simularium",
      "manifest.xml", "reports.h5", "plot.pdf", "log.yml" }

RECURSIVE ListingsUpTo(_)
ListingsUpTo(n) ==
    IF n = 0 THEN { <<>> }
    ELSE LET shorter == ListingsUpTo(n - 1)
         IN shorter \cup { Append(l, f) : l \in { x \in shorter : Len(x) = n - 1 },
                                          f \in ListedFiles }

\* what os.listdir(working_dir) can return: no name twice, any order
Listings ==
    { l \in ListingsUpTo(MaxListing) : \A i, j \in 1..Len(l) : i # j => l[i] # l[j] }

\* the simulations have run: the working directory wd holds the listed files
InitExec ==
    /\ mA \in Listings
    /\ mB = <<>>
    /\ mPath = <<>>
    /\ mOp = "init"
    /\ mRes = NoResult
    /\ fs = [x \in { <<"wd", mA[i]>> : i \in 1..Len(mA) } |-> DataFile(x[2])]
    /\ dirs = { <<"wd">> }
    /\ svc = <<>>
    /\ hist = <<>>
    /\ last = <<>>
    /\ RIdle

\* exec_combine_archive_and_simularium('wd', ..., simularium_filename='result',
\* save_path='out.omex'), from os.path.exists(simularium_fp + '.simularium') on
ExecBundle ==
    /\ mOp = "init"
    /\ IF <<"wd", "result.simularium">> \notin DOMAIN fs
       THEN /\ mOp' = "ValueError"
            /\ UNCHANGED <<fs, mRes>>
       ELSE \E log \in ErrorLogs :
              LET archive_content == [i \in 1..Len(mA) |-> classify(mA[i])]
                  written == write_manifest_to_file(archive_content, <<"wd", "manifest.xml">>, log, fs, dirs)
              IN /\ mRes' = Value(archive_content)
                 /\ mOp' = written.outcome
                 /\ fs' = IF written.outcome = "returned"
                          THEN combine_writer_run(archive_content, "wd", <<"out.omex">>, written.files)
                          ELSE written.files
    /\ UNCHANGED <<mA, mB, mPath, dirs, svc, hist, last, rvars>>

SpecExec == InitExec /\ [][ExecBundle]_vars

(***************************************************************************)
(* An instance on a directory whose files are created, deleted and renamed *)
(* by other parts of the program, and add_simularium_file_to_manifest as   *)
(* one call                                                                *)
(***************************************************************************)
\* files created, removed or renamed by others in one run
MaxChanges == 1

\* calls of add_simularium_file_to_manifest in one run
MaxRegistrations == 1

N_root == <<"root">>

N_a == <<"a">>

N_b == <<"b">>

N_out_txt == <<"out", ".txt">>

\* proj with its manifest and two sub-directories that each hold an out.txt
SnapshotFiles ==
    (<<N_proj, N_manifest_xml>> :> write_manifest(ManifestA))
    @@ (<<N_proj, N_a, N_out_txt>> :> DataFile("out a"))
    @@ (<<N_proj, N_b, N_out_txt>> :> DataFile("out b"))

SnapshotDirs == { <<N_proj>>, <<N_proj, N_a>>, <<N_proj, N_b>> }

\* where files appear: a file named 'root' in a sub-directory, and the
\* simularium file
NewPaths == { <<N_proj, N_b, N_root>>, <<N_proj, N_result>> }

\* a change of the directory by another part of the program
Change(op) == Event(0, op, <<>>, <<>>, <<>>)

\* files created, removed or renamed so far
Changes == Len(SelectSeq(hist, LAMBDA e : e.svc = 0))

\* calls of add_simularium_file_to_manifest so far
Adds == Len(SelectSeq(hist, LAMBDA e : e.svc # 0))

InitSnapshot ==
    /\ fs = SnapshotFiles
    /\ dirs = SnapshotDirs
    /\ svc = [s \in Services |-> Unopened]
    /\ hist = <<>>
    /\ last = NoCall
    /\ MIdle
    /\ RIdle

\* writer.save(output_path=simularium_filename) of write_simularium_file: a
\* file that was not there is created
CreateFile(fp) ==
    /\ Changes < MaxChanges
    /\ fp \notin DOMAIN fs
    /\ fs' = [x \in DOMAIN fs \cup {fp} |-> IF x = fp THEN DataFile("new") ELSE fs[x]]
    /\ hist' = Append(hist, Change("create"))
    /\ UNCHANGED <<dirs, svc, last, mvars, rvars>>

\* remove_file(fp): os.remove(fp) if os.path.exists(fp)
DeleteFile(fp) ==
    /\ Changes < MaxChanges
    /\ fp \in DOMAIN fs
    /\ fs' = [x \in DOMAIN fs \ {fp} |-> fs[x]]
    /\ hist' = Append(hist, Change("remove"))
    /\ UNCHANGED <<dirs, svc, last, mvars, rvars>>

\* f.endswith('.txt') and 'model' not in f
is_output_name(f) == f[Len(f)] = ".txt" /\ \A i \in 1..Len(f) : f[i] \notin {"model", "modelout"}

\* the files the loop renames, in the order of the walk
RECURSIVE walked_outputs(_)
walked_outputs(walk) ==
    IF walk = <<>> THEN <<>>
    ELSE [i \in 1..Len(SelectSeq(Head(walk).files, is_output_name)) |->
             join(Head(walk).root, SelectSeq(Head(walk).files, is_output_name)[i])]
         \o walked_outputs(Tail(walk))

\* os.rename(f, model_output_filename) for each of the files in turn: every
\* one of them is gone from its place and the last one is at the new path
renamed(outputs, model_output_filename, files) ==
    [x \in (DOMAIN files \ { outputs[i] : i \in 1..Len(outputs) }) \cup {model_output_filename} |->
        IF x = model_output_filename THEN files[outputs[Len(outputs)]] ELSE files[x]]

\* the converter standardizes the name of the model output: it walks
\* rootpath and renames every .txt file without 'model' in its name to
\* model_output_filename
RenameFiles(rootpath, model_output_filename) ==
    /\ Changes < MaxChanges
    /\ \E walk \in os_walk(rootpath, DOMAIN fs, dirs) :
          /\ walked_outputs(walk) # <<>>
          /\ fs' = renamed(walked_outputs(walk), model_output_filename, fs)
          /\ hist' = Append(hist, Change("rename"))
    /\ UNCHANGED <<dirs, svc, last, mvars, rvars>>

\* what a call on the instance leaves: its self.paths, the files, and how
\* the call ended
Added(paths, files, outcome) == [paths |-> paths, files |-> files, outcome |-> outcome]

\* the try block of add_file_to_manifest: get_manifest_filepath once more,
\* write_manifest; the except clause prints the error and calls warn with
\* one argument
add_file_to_manifest_write(paths, contents, write_log, manifest_fp, files, D) ==
    IF write_manifest_to_file(contents, manifest_fp, write_log, files, D).outcome = "returned"
    THEN Added(get_manifest_filepath_paths(paths),
               write_manifest_to_file(contents, manifest_fp, write_log, files, D).files, "returned")
    ELSE Added(get_manifest_filepath_paths(paths), files,
               IF warn(1) = "TypeError" THEN "TypeError" ELSE "returned")

\* add_file_to_manifest(contents_fp) once get_manifest_filepath has returned
\* manifest_fp: read_manifest(manifest_fp, archive_filename=self.rootpath),
\* append the new content, write
add_file_to_manifest_read(paths, read, contents_fp, write_log, manifest_fp, files, D) ==
    IF read.outcome # "returned"
    THEN Added(paths, files, read.outcome)
    ELSE add_file_to_manifest_write(paths, Append(read.contents, generate_new_archive_content(contents_fp)),
                                    write_log, manifest_fp, files, D)

\* add_file_to_manifest(contents_fp) on an instance with these paths and
\* rootpath; manifest_fp is what list(set(manifest))[0] gives in this process
add_file_to_manifest(paths, rootpath, contents_fp, validate, read_log, write_log, manifest_fp, files, D) ==
    add_file_to_manifest_read(get_manifest_filepath_paths(paths),
                              reader_read_manifest(manifest_fp, Some(rootpath), validate, read_log, files, D),
                              contents_fp, write_log, manifest_fp, files, D)

\* add_simularium_file_to_manifest: every exception of the inner call is
\* raised as IOError
add_simularium_file_to_manifest_outcome(outcome) ==
    IF outcome = "returned" THEN "returned" ELSE "IOError"

\* the circumstances of one call: config.VALIDATE_OMEX_MANIFESTS, the errors
\* libcombine reports for the manifest read and for the manifest built, and
\* how add_file_to_manifest ended
Registration(validate, read_log, write_log, outcome) ==
    [validate |-> validate, read_errors |-> read_log.errors, write_errors |-> write_log.errors, inner |-> outcome]

\* the error logs with and without errors
LogsWithoutWarnings == { log \in ErrorLogs : log.warnings = <<>> }

\* the files other parts of the program remove
RemovedPaths == { <<N_proj, N_manifest_xml>>, <<N_proj, N_a, N_out_txt>> }

\* archive.add_simularium_file_to_manifest(simularium_fp): simularium_fp is
\* None or a path
AddSimulariumFileToManifest(s, simularium_fp) ==
    /\ svc[s].state = "open"
    /\ svc[s].pc = "idle"
    /\ Adds < MaxRegistrations
    /\ UNCHANGED <<dirs, mvars, rvars>>
    /\ LET fp == IF simularium_fp = None THEN svc[s].simularium_filename ELSE simularium_fp[1]
       IN IF get_manifest_filepath_returns(svc[s].paths) = {}
          THEN /\ UNCHANGED <<fs, svc>>
               /\ hist' = Append(hist, Event(s, "add", <<>>, <<>>, <<>>))
               /\ last' = Call(s, "add_simularium_file_to_manifest",
                               add_simularium_file_to_manifest_outcome("IndexError"),
                               Value(Registration(FALSE, [errors |-> <<>>], [errors |-> <<>>], "IndexError")))
          ELSE \E manifest_fp \in get_manifest_filepath_returns(svc[s].paths) :
               \E validate \in BOOLEAN, read_log \in LogsWithoutWarnings, write_log \in LogsWithoutWarnings :
                  LET added == add_file_to_manifest(svc[s].paths, svc[s].rootpath, fp, validate,
                                                    read_log, write_log, manifest_fp, fs, dirs)
                  IN /\ fs' = added.files
                     /\ svc' = [svc EXCEPT ![s].paths = added.paths]
                     /\ hist' = Append(hist, Event(s, "add", <<>>, <<>>, <<>>))
                     /\ last' = Call(s, "add_simularium_file_to_manifest",
                                     add_simularium_file_to_manifest_outcome(added.outcome),
                                     Value(Registration(validate, read_log, write_log, added.outcome)))

\* str.lower() on the letters the format names are written with
lower_letter(c) ==
    IF c = "B" THEN "b" ELSE IF c = "I" THEN "i" ELSE IF c = "N" THEN "n" ELSE IF c = "A" THEN "a"
    ELSE IF c = "R" THEN "r" ELSE IF c = "Y" THEN "y" ELSE IF c = "J" THEN "j" ELSE IF c = "S" THEN "s"
    ELSE IF c = "O" THEN "o" ELSE IF c = "C" THEN "c" ELSE IF c = "V" THEN "v" ELSE c

RECURSIVE lower(_)
lower(string) ==
    IF Len(string) = 0 THEN ""
    ELSE lower_letter(SubSeq(string, 1, 1)) \o lower(SubSeq(string, 2, Len(string)))

\* os.path.exists
exists(path, files, D) == path \in DOMAIN files \/ path \in D

\* BiosimulatorsDataConverter.write_simularium_file: the files afterwards.
\* Nothing is written at a path that exists or in an unknown format
write_simularium_file(simularium_filename, save_format, files, D) ==
    IF exists(simularium_filename, files, D) THEN files
    ELSE IF contains(lower(save_format), "binary") \/ contains(lower(save_format), "json")
    THEN [x \in DOMAIN files \cup {simularium_filename} |->
             IF x = simularium_filename THEN DataFile("trajectory") ELSE files[x]]
    ELSE files

\* the end of generate_simularium_file: an archive given as an .omex file is
\* bundled again, with the list of paths as the archive to write
rebundled(added, rootpath, D) ==
    IF added.outcome = "returned" /\ contains_omex(rootpath)
    THEN Added(added.paths, writer_run_list(rootpath, added.files, D).files,
               writer_run_list(rootpath, added.files, D).outcome)
    ELSE Added(added.paths, added.files, add_simularium_file_to_manifest_outcome(added.outcome))

\* what one call of generate_simularium_file was given and whether it went
\* on to write and register
Generation(simularium_filename, overwrite, io_format, existed, went_on) ==
    [simularium_filename |-> simularium_filename, overwrite |-> overwrite, io_format |-> io_format,
     existed |-> existed, went_on |-> went_on]

\* converter.generate_simularium_file(simularium_filename, overwrite,
\* io_format): simularium_filename is None or a path
GenerateSimulariumFile(s, simularium_filename, overwrite, io_format) ==
    /\ svc[s].state = "open"
    /\ svc[s].pc = "idle"
    /\ Adds < MaxRegistrations
    /\ UNCHANGED <<dirs, mvars, rvars>>
    /\ hist' = Append(hist, Event(s, "generate", <<>>, <<>>, <<>>))
    /\ LET fp == IF simularium_filename = None THEN svc[s].simularium_filename ELSE simularium_filename[1]
       IN IF exists(fp, fs, dirs) /\ ~overwrite
          THEN /\ UNCHANGED <<fs, svc>>
               /\ last' = Call(s, "generate_simularium_file", "returned",
                               Value(Generation(fp, overwrite, io_format, TRUE, FALSE)))
          ELSE IF get_manifest_filepath_returns(svc[s].paths) = {}
          THEN /\ fs' = write_simularium_file(fp, io_format, fs, dirs)
               /\ svc' = svc
               /\ last' = Call(s, "generate_simularium_file", add_simularium_file_to_manifest_outcome("IndexError"),
                               Value(Generation(fp, overwrite, io_format, exists(fp, fs, dirs), TRUE)))
          ELSE \E manifest_fp \in get_manifest_filepath_returns(svc[s].paths) :
               \E validate \in BOOLEAN, read_log \in LogsWithoutWarnings, write_log \in LogsWithoutWarnings :
                  LET generated == rebundled(add_file_to_manifest(svc[s].paths, svc[s].rootpath, fp, validate,
                                                                  read_log, write_log, manifest_fp,
                                                                  write_simularium_file(fp, io_format, fs, dirs), dirs),
                                             svc[s].rootpath, dirs)
                  IN /\ fs' = generated.files
                     /\ svc' = [svc EXCEPT ![s].paths = generated.paths]
                     /\ last' = Call(s, "generate_simularium_file", generated.outcome,
                                     Value(Generation(fp, overwrite, io_format, exists(fp, fs, dirs), TRUE)))

NextSnapshot ==
    \/ Open(1, <<N_proj>>)
    \/ Index(1)
    \/ GetManifestFilepath(1)
    \/ \E fp \in NewPaths : CreateFile(fp)
    \/ \E fp \in RemovedPaths : DeleteFile(fp)
    \/ RenameFiles(<<N_proj>>, <<N_proj, N_modelout_txt>>)
    \/ \E simularium_fp \in { None, Some(<<N_result>>) } : AddSimulariumFileToManifest(1, simularium_fp)

SpecSnapshot == InitSnapshot /\ [][NextSnapshot]_vars

(***************************************************************************)
(* generate_simularium_file on a directory that holds a simularium file    *)
(* of an earlier run, or none                                              *)
(***************************************************************************)
\* proj with a manifest, without and with a simularium file
GenerateFiles ==
    { <<N_proj, N_manifest_xml>> :> write_manifest(contents) : contents \in { <<>>, ManifestA } }
    \cup { (<<N_proj, N_manifest_xml>> :> write_manifest(contents)) @@ (<<N_proj, N_result>> :> DataFile("old")) :
              contents \in { <<>>, ManifestA } }

InitGenerate ==
    /\ fs \in GenerateFiles
    /\ dirs = { <<N_proj>> }
    /\ svc = [s \in Services |-> Unopened]
    /\ hist = <<>>
    /\ last = NoCall
    /\ MIdle
    /\ RIdle

NextGenerate ==
    \/ Open(1, <<N_proj>>)
    \/ \E simularium_filename \in { None, Some(<<N_proj, N_result>>) }, overwrite \in BOOLEAN, io_format \in { "JSON", "binary", "csv" } :
          GenerateSimulariumFile(1, simularium_filename, overwrite, io_format)

SpecGenerate == InitGenerate /\ [][NextGenerate]_vars

(***************************************************************************)
(* verify_spatial_simulator_in_manifest on instances whose directory holds *)
(* one of the manifests that are read                                      *)
(***************************************************************************)
\* the directory proj with the manifest contents and the model file
VerifyFiles(contents) ==
    (<<N_proj, N_manifest_xml>> :> write_manifest(contents))
    @@ (<<N_proj, N_model_txt>> :> DataFile("model"))

VerifyManifests == ReadManifests \cup { ManifestA }

InitVerify ==
    /\ fs \in { VerifyFiles(contents) : contents \in VerifyManifests }
    /\ dirs = { <<N_proj>> }
    /\ svc = [s \in Services |-> Unopened]
    /\ hist = <<>>
    /\ last = NoCall
    /\ MIdle
    /\ RIdle

\* what the call gives: how it ended, the value returned, and the errors
\* libcombine reported for the manifest
Verified(outcome, value, log) == [outcome |-> outcome, value |-> value, read_errors |-> log.errors]

\* verify_spatial_simulator_in_manifest once read_manifest_contents has
\* ended: manifest_contents[0][1] is the format of the first content, and
\* 'smoldyn' in None raises TypeError
verify_spatial_simulator_in_manifest(read, log) ==
    IF read.outcome # "returned" THEN Verified(read.outcome, FALSE, log)
    ELSE IF read.contents = <<>> THEN Verified("IndexError", FALSE, log)
    ELSE IF to_tuple(read.contents[1])[2] = None THEN Verified("TypeError", FALSE, log)
    ELSE Verified("returned", contains(to_tuple(read.contents[1])[2][1], "smoldyn"), log)

\* archive.verify_spatial_simulator_in_manifest(), as the constructor of
\* BiosimulatorsDataConverter calls it
VerifySpatialSimulatorInManifest(s) ==
    /\ svc[s].state = "open"
    /\ svc[s].pc = "idle"
    /\ UNCHANGED <<fs, dirs, hist, mvars, rvars>>
    /\ IF get_manifest_filepath_returns(svc[s].paths) = {}
       THEN /\ svc' = svc
            /\ last' = Call(s, "verify_spatial_simulator_in_manifest", "IndexError", NoResult)
       ELSE \E manifest_fp \in get_manifest_filepath_returns(svc[s].paths) :
            \E validate \in BOOLEAN, log \in LogsWithoutWarnings :
               LET verified == verify_spatial_simulator_in_manifest(
                                   reader_read_manifest(manifest_fp, Some(svc[s].rootpath), validate, log, fs, dirs),
                                   log)
               IN /\ svc' = [svc EXCEPT ![s].paths = get_manifest_filepath_paths(svc[s].paths)]
                  /\ last' = Call(s, "verify_spatial_simulator_in_manifest", verified.outcome, Value(verified))

NextVerify ==
    \/ Open(1, <<N_proj>>)
    \/ VerifySpatialSimulatorInManifest(1)

SpecVerify == InitVerify /\ [][NextVerify]_vars

(***************************************************************************)
(* Properties of the archive service                                       *)
(***************************************************************************)
\* the content add_file_to_manifest(fp) is to append
Registered(fp) == [location |-> Some(fp), format |-> None, master |-> Some(FALSE)]

\* the step is the writing half of add_file_to_manifest by instance s
Registers(s) ==
    /\ svc[s].pc = "read"
    /\ svc'[s].pc = "idle"
    /\ last' = Call(s, "add_file_to_manifest", "returned", NoResult)

LastFour(op1, s1, op2, s2, op3, s3, op4, s4) ==
    /\ Len(hist) >= 4
    /\ LET n == Len(hist)
       IN /\ hist[n - 3].op = op1 /\ hist[n - 2].op = op2 /\ hist[n - 1].op = op3 /\ hist[n].op = op4
          /\ hist[n - 3].svc = s1 /\ hist[n - 2].svc = s2 /\ hist[n - 1].svc = s3 /\ hist[n].svc = s4
          /\ \A i \in (n - 3)..n : hist[i].path = hist[n].path

\* both instances read the manifest before either wrote it; t wrote last
Interleaved(s, t) ==
    \/ LastFour("read", s, "read", t, "write", s, "write", t)
    \/ LastFour("read", t, "read", s, "write", s, "write", t)

\* the call of t ran after the call of s, and read what s had written
OneAfterTheOther(s, t) ==
    /\ LastFour("read", s, "write", s, "read", t, "write", t)
    /\ hist[Len(hist) - 1].contents = hist[Len(hist) - 2].contents

FilesUnder(root) ==
    { <<SubSeq(x, Len(root) + 1, Len(x)), fs[x]>> : x \in { y \in DOMAIN fs : IsPrefix(root, y) /\ y # root } }

ZipMembers(zip) == { <<zip.contents[i].archive_path, zip.contents[i].data>> : i \in 1..Len(zip.contents) }

\* C4 (Scenario D): after rezip() with no destination on an instance opened
\* on a packaged archive, the original archive path holds a zip of all files
\* currently under the working directory
C4_RepackOverwrites ==
    (last.op = "rezip" /\ endswith_omex(svc[last.svc].given))
        => /\ last.outcome = "returned"
           /\ svc[last.svc].given \in DOMAIN fs
           /\ fs[svc[last.svc].given].kind = "zip"
           /\ ZipMembers(fs[svc[last.svc].given]) = FilesUnder(svc[last.svc].rootpath)

\* the working directory of the packaged archive arch.omex
Derived(path) == IF path = <<N_arch_omex>> THEN << <<"arch", "_UNZIPPED">> >> ELSE path

\* C8: an instance constructed on a path ending in '.omex' has unpacked the
\* archive exactly once, into the path with '.omex' replaced by '_UNZIPPED',
\* and has that directory as its root; an instance constructed on any other
\* path has unpacked nothing and has the given path as its root
C8_Open ==
    /\ [](\A s \in Services : svc[s].state = "open" =>
            IF endswith_omex(svc[s].given)
            THEN /\ svc[s].rootpath = Derived(svc[s].given)
                 /\ svc[s].rootpath # svc[s].given
                 /\ svc[s].rootpath \in dirs
                 /\ svc[s].unzips = 1
            ELSE /\ svc[s].rootpath = svc[s].given
                 /\ svc[s].unzips = 0)
    /\ [][\A s \in Services : (svc[s].state = "unopened" /\ svc'[s].state = "open") =>
            IF endswith_omex(svc'[s].given)
            THEN \A i \in 1..Len(fs[svc'[s].given].contents) :
                    LET member == fs[svc'[s].given].contents[i]
                    IN /\ Derived(svc'[s].given) \o member.archive_path \in DOMAIN fs'
                       /\ fs'[Derived(svc'[s].given) \o member.archive_path] = member.data
            ELSE fs' = fs /\ dirs' = dirs]_vars

C8_Witness ==
    \E s \in Services :
        /\ svc[s].state = "open"
        /\ svc[s].given = <<N_arch_omex>>
        /\ svc[s].rootpath = << <<"arch", "_UNZIPPED">> >>
        /\ << <<"arch", "_UNZIPPED">>, N_manifest_xml >> \in DOMAIN fs

\* unpacking was attempted for instance s and its root was not moved
UnzipFailed(s) == svc[s].unzips = 1 /\ svc[s].rootpath = svc[s].given

\* C9: when unpacking fails during construction, the instance is left in
\* an error state, and the call on it that failed, like every later call on
\* it, ends with an archive-open error
C9_FailedOpen ==
    \A s \in Services :
        UnzipFailed(s) =>
            /\ svc[s].state = "failed"
            /\ last.svc = s => last.outcome = "ArchiveOpenError"

\* C10: the mapping get_all_archive_filepaths returns for an existing root R
\* maps 'root' to R and the name of every file under R to that file's path
C10_Index ==
    (last.op = "get_all_archive_filepaths" /\ svc[last.svc].rootpath \in dirs)
        => /\ dict_has(last.ret.val, K_root)
           /\ dict_get(last.ret.val, K_root) = svc[last.svc].rootpath
           /\ \A x \in DOMAIN fs : IsPrefix(svc[last.svc].rootpath, x) =>
                /\ dict_has(last.ret.val, x[Len(x)])
                /\ dict_get(last.ret.val, x[Len(x)]) = x

\* two dicts with the same keys and the same value under each key
SameMapping(p, q) ==
    /\ { p[i][1] : i \in 1..Len(p) } = { q[i][1] : i \in 1..Len(q) }
    /\ \A i \in 1..Len(p) : dict_get(q, p[i][1]) = dict_get(p, p[i][1])

\* the step is a call of get_all_archive_filepaths by instance s
Indexes(s) == last' # last /\ last'.svc = s /\ last'.op = "get_all_archive_filepaths"

\* C11: a call of get_all_archive_filepaths changes neither the filesystem
\* nor the instance; a call that directly follows another one on the same
\* instance returns the same keys with the same paths; and the call returns
\* the mapping every walk of the directory as it is gives
C11_IndexIdempotent ==
    /\ [][\A s \in Services :
            /\ Indexes(s) => (fs' = fs /\ dirs' = dirs /\ svc' = svc)
            /\ (Indexes(s) /\ last.svc = s /\ last.op = "get_all_archive_filepaths")
                  => SameMapping(last.ret.val, last'.ret.val)]_vars
    /\ [](last.op = "get_all_archive_filepaths" =>
            \A paths \in get_all_archive_filepaths(svc[last.svc].rootpath, DOMAIN fs, dirs) :
                SameMapping(paths, last.ret.val))

\* the instance on proj was constructed, which built the index, and then
\* get_all_archive_filepaths returned the same mapping in another order
C11_Witness ==
    /\ last.op = "get_all_archive_filepaths"
    /\ svc[last.svc].rootpath = <<N_proj>>
    /\ fs = InitialFiles
    /\ \A i \in 1..Len(last.ret.val) :
          dict_get(svc[last.svc].paths, last.ret.val[i][1]) = last.ret.val[i][2]
    /\ SubSeq(svc[last.svc].paths, 1, 4) # last.ret.val
    /\ Len(last.ret.val) = 4

\* the files under root whose name contains 'manifest'
ManifestFiles(root) ==
    { f \in DOMAIN fs : /\ IsPrefix(root, f)
                        /\ f # root
                        /\ \E j \in 1..Len(f[Len(f)]) : f[Len(f)][j] = "manifest" }

\* C12: when exactly one file under the instance's root has a name that
\* contains 'manifest', get_manifest_filepath returns the path of that file,
\* whatever the root and the other entries are called
C12_Locate ==
    (last.op = "get_manifest_filepath" /\ Cardinality(ManifestFiles(svc[last.svc].rootpath)) = 1)
        => /\ last.outcome = "returned"
           /\ last.ret.val \in ManifestFiles(svc[last.svc].rootpath)

\* C13: when no indexed path contains 'manifest', get_manifest_filepath
\* returns normally
C13_NoManifest ==
    (last.op = "get_manifest_filepath" /\ manifest_matches(svc[last.svc].paths) = <<>>)
        => last.outcome = "returned"

\* after packing mA and unpacking into mPath: every packed file lies under
\* mPath at its archive path with the bytes of the local file, and the
\* returned Archive has one entry per packed file, named as the member, with
\* local_path the member name joined to the directory
Reproduced ==
    /\ \A i \in 1..Len(mA) :
          /\ (mPath \o normpath(mA[i].archive_path)) \in DOMAIN fs
          /\ fs[mPath \o normpath(mA[i].archive_path)] = SourceFiles[mA[i].local_path]
    /\ Len(mRes.val) = Len(mA)
    /\ \A i \in 1..Len(mA) :
          /\ mRes.val[i].archive_path = fs[<<N_out_zip>>].contents[i].archive_path
          /\ mRes.val[i].local_path = mPath \o fs[<<N_out_zip>>].contents[i].archive_path

DistinctMembers ==
    \A i, j \in 1..Len(mA) : i # j => normpath(mA[i].archive_path) # normpath(mA[j].archive_path)

C15_FailedWriteKeepsFile ==
    [][(mOp = "init" /\ mOp' \notin { "init", "returned" }) => fs' = fs]_vars

\* write_manifest raised ValueError for other contents than the ones in the
\* manifest file at the target path, and that file still holds the old ones
C15_Witness ==
    /\ mOp = "ValueError"
    /\ mPath = <<N_proj, N_manifest_xml>>
    /\ mPath \in DOMAIN fs
    /\ fs[mPath] = write_manifest(ManifestA)
    /\ write_manifest(mA) # fs[mPath]

(***************************************************************************)
(* Properties of the format registry                                       *)
(***************************************************************************)
\* the indexes of the registry entries whose pattern matches uri
Matching(uri) == { i \in 1..Len(FormatRegistry) : compiled_match(FormatRegistry[i].pattern, uri) }

\* C7: every call resolve(uri) returns the name of the first entry, in table order,
\* whose pattern matches uri, and none exactly when no pattern matches; the
\* result is what Python's re gives for the identifier (CSV for
\* 'http://purl.org/NET/mediatypes/text/csv', none for 'not-a-uri'); and two
\* calls with the same uri return the same result
C7_Resolve ==
    calls # <<>> =>
        LET call == calls[Len(calls)]
            matching == Matching(call.uri)
        IN /\ (matching = {}) <=> (call.name = None)
           /\ matching # {} =>
                 \E i \in matching :
                     /\ call.name = Some(CombineArchiveContentFormatPattern[i].name)
                     /\ \A m \in matching : i <= m
           /\ call.name = PythonResult[call.uri]
           /\ call.uri = "http://purl.org/NET/mediatypes/text/csv" => call.name = Some("CSV")
           /\ call.uri = "not-a-uri" => call.name = None
           /\ \A j \in 1..Len(calls) : calls[j].uri = call.uri => calls[j].name = call.name

\* the identifier of CSV resolved twice
C7_Witness ==
    /\ Len(calls) = 2
    /\ calls[1] = [uri |-> "http://purl.org/NET/mediatypes/text/csv", name |-> Some("CSV")]
    /\ calls[2] = calls[1]

(***************************************************************************)
(* Properties of CombineArchiveReader                                      *)
(***************************************************************************)
\* the formats of the manifests read that name an OMEX archive
OmexFormats == { Format_OMEX, "https://identifiers.org/combine.specifications/omex.version-1" }

\* the entries of the manifest in the archive whose location is the archive
SelfEntries == { i \in 1..Len(mA) : normpath(mA[i].location[1]) = <<N_dot>> }

\* run was called on the archive with VALIDATE_OMEX_MANIFESTS on
ValidatedRun == mOp = "run" /\ mB.filename = <<N_arch_omex>> /\ mB.validate

\* libcombine reported nothing for the manifest
CleanLog == mB.log.errors = <<>> /\ mB.log.warnings = <<>>

ManifestRead == mOp = "read_manifest" /\ mB.filename = <<N_proj, N_manifest_xml>>

\* what read_manifest appended to self.errors and self.warnings is what
\* libcombine reported
Collected == mRes.val.errors = mB.log.errors /\ mRes.val.warnings = mB.log.warnings

C19_RelativeLocation ==
    \A n \in 1..Len(hist) :
        hist[n].op = "write" =>
            LET entry == hist[n].contents[Len(hist[n].contents)]
            IN ~IsPrefix(svc[hist[n].svc].rootpath, entry.location[1])

\* the step constructs instance s
Constructs(s) == svc[s].state = "unopened" /\ svc'[s].state = "open"

\* C20: the constructor builds the index once the root is settled and the
\* archive unpacked: the index of a new instance lists exactly the files that
\* lie under its root after the step, those unpacked from the archive
\* included, every path in it lies at or under the root, and none is the
\* packaged archive; and a call of
\* add_file_to_manifest is made only on an instance that was constructed,
\* and so had its index, before the call
C20_Lifecycle ==
    [][\A s \in Services :
        /\ Constructs(s) =>
              LET indexed == { svc'[s].paths[i][2] : i \in { j \in 1..Len(svc'[s].paths) :
                                  svc'[s].paths[j][1] \notin { K_root, K_model_output_file } } }
              IN /\ indexed = { y \in DOMAIN fs' : IsPrefix(svc'[s].rootpath, y) /\ y # svc'[s].rootpath }
                 /\ \A i \in 1..Len(svc'[s].paths) : IsPrefix(svc'[s].rootpath, svc'[s].paths[i][2])
                 /\ endswith_omex(svc'[s].given) =>
                       /\ svc'[s].given \notin indexed
                       /\ svc'[s].rootpath # svc'[s].given
                       /\ \A i \in 1..Len(fs[svc'[s].given].contents) :
                             (svc'[s].rootpath \o fs[svc'[s].given].contents[i].archive_path) \in indexed
        /\ (hist' # hist /\ hist'[Len(hist')].svc = s) =>
              /\ svc[s].state = "open"
              /\ svc'[s].state = "open"]_vars

\* an instance constructed on arch.omex indexes the unpacked manifest and
\* has registered a file in it
C20_Witness ==
    \E s \in Services :
        /\ svc[s].state = "open"
        /\ svc[s].given = <<N_arch_omex>>
        /\ dict_has(svc[s].paths, N_manifest_xml)
        /\ dict_get(svc[s].paths, N_manifest_xml) = << <<"arch", "_UNZIPPED">>, N_manifest_xml >>
        /\ \E n \in 1..Len(hist) : hist[n].svc = s /\ hist[n].op = "write"

(***************************************************************************)
(* Properties of the index of a directory that changes                     *)
(***************************************************************************)
\* the assignments paths[key] = value the walk makes, in order
RECURSIVE Assigned(_)
Assigned(walk) ==
    IF walk = <<>> THEN <<>>
    ELSE << <<K_root, Head(walk).root>> >>
         \o [i \in 1..Len(Head(walk).files) |-> <<Head(walk).files[i], join(Head(walk).root, Head(walk).files[i])>>]
         \o Assigned(Tail(walk))

\* the value of the last of the assignments to the key
LastAssigned(assigned, key) ==
    assigned[CHOOSE i \in 1..Len(assigned) :
                /\ assigned[i][1] = key
                /\ \A j \in (i + 1)..Len(assigned) : assigned[j][1] # key][2]

\* the paths the mapping gives access to
Reachable(paths) == { paths[i][2] : i \in 1..Len(paths) }

\* the files under root that have the name
FilesNamed(root, name) == { f \in DOMAIN fs : IsPrefix(root, f) /\ f # root /\ f[Len(f)] = name }

\* paths has one path per key: for some walk of root every key has the path
\* assigned to it last; of the files that share a name at most one is
\* reachable; the key 'root' holds a file named 'root' or a directory
LaterWins(paths, root) ==
    /\ \A i, j \in 1..Len(paths) : paths[i][1] = paths[j][1] => i = j
    /\ \E walk \in os_walk(root, DOMAIN fs, dirs) :
          /\ dict_keys(paths) = { Assigned(walk)[i][1] : i \in 1..Len(Assigned(walk)) }
          /\ \A key \in dict_keys(paths) : dict_get(paths, key) = LastAssigned(Assigned(walk), key)
    /\ \A f \in DOMAIN fs : IsPrefix(root, f) =>
          Cardinality(FilesNamed(root, f[Len(f)]) \cap Reachable(paths)) <= 1
    /\ \A f \in FilesNamed(root, N_root) :
          IF dict_get(paths, K_root) \in dirs
          THEN f \notin Reachable(paths)
          ELSE Reachable(paths) \cap dirs = {}

\* C22: get_all_archive_filepaths on an existing root returns without an
\* error a mapping with one path per key: for some walk of the directory
\* every key has the path assigned to it last, so of the files that share a
\* name only the one walked later is reachable, and the key 'root' holds
\* either a file named 'root' or a directory, never both
C22_LaterWins ==
    [][\A s \in Services :
          (Indexes(s) /\ svc[s].rootpath \in dirs)
              => /\ last'.outcome = "returned"
                 /\ LaterWins(last'.ret.val, svc[s].rootpath)]_vars

\* both out.txt files exist and the one in a is dropped; the file named
\* 'root' has taken the key 'root', so no directory is in the mapping
C22_Witness ==
    /\ last.op = "get_all_archive_filepaths"
    /\ last.outcome = "returned"
    /\ { <<N_proj, N_a, N_out_txt>>, <<N_proj, N_b, N_out_txt>>, <<N_proj, N_b, N_root>> } \subseteq DOMAIN fs
    /\ dict_get(last.ret.val, N_out_txt) = <<N_proj, N_b, N_out_txt>>
    /\ <<N_proj, N_a, N_out_txt>> \notin Reachable(last.ret.val)
    /\ dict_get(last.ret.val, K_root) = <<N_proj, N_b, N_root>>

\* the keys of self.paths other than 'manifest', with their paths
OtherKeys(paths) == { paths[i] : i \in { j \in 1..Len(paths) : paths[j][1] # K_manifest } }

\* the step is made by another part of the program, not by a call
ChangesFiles == hist' # hist /\ last' = last

\* C23: self.paths is a snapshot. The constructor stores a mapping that
\* get_all_archive_filepaths gives for the directory as it is then, plus the
\* key 'model_output_file'; no later step changes a key other than
\* 'manifest', and a step that creates, removes or renames files changes no
\* key at all; get_all_archive_filepaths returns the mapping of the
\* directory as it is now (a file with a name of its own is in it under
\* that name) and leaves self.paths as it was
C23_Snapshot ==
    [][\A s \in Services :
          /\ (svc[s].state = "unopened" /\ svc'[s].state = "open")
                => \E paths \in get_all_archive_filepaths(svc'[s].rootpath, DOMAIN fs', dirs') :
                      svc'[s].paths = dict_set(paths, K_model_output_file, join(svc'[s].rootpath, N_modelout_txt))
          /\ svc[s].state = "open"
                => /\ svc'[s].state = "open"
                   /\ OtherKeys(svc'[s].paths) = OtherKeys(svc[s].paths)
          /\ ChangesFiles => svc'[s] = svc[s]
          /\ Indexes(s)
                => /\ svc'[s] = svc[s]
                   /\ last'.ret.val \in get_all_archive_filepaths(svc[s].rootpath, DOMAIN fs, dirs)
                   /\ \A f \in DOMAIN fs :
                         (IsPrefix(svc[s].rootpath, f) /\ FilesNamed(svc[s].rootpath, f[Len(f)]) = {f}
                            /\ f[Len(f)] # K_root)
                            => dict_get(last'.ret.val, f[Len(f)]) = f]_vars

\* the simularium file was created after the instance was constructed: it
\* is not in self.paths, and it is in the mapping the call just returned
C23_Witness ==
    /\ svc[1].state = "open"
    /\ <<N_proj, N_result>> \in DOMAIN fs
    /\ ~dict_has(svc[1].paths, N_result)
    /\ <<N_proj, N_result>> \notin Reachable(svc[1].paths)
    /\ dict_has(svc[1].paths, K_manifest)
    /\ last.op = "get_all_archive_filepaths"
    /\ dict_has(last.ret.val, N_result)
    /\ dict_get(last.ret.val, N_result) = <<N_proj, N_result>>

\* the step is a call of add_simularium_file_to_manifest by instance s
Registering(s) == hist' # hist /\ hist'[Len(hist')].svc = s /\ last'.op = "add_simularium_file_to_manifest"

\* locating, reading or writing the manifest failed in the call that just
\* ended: no path with 'manifest', an exception in add_file_to_manifest, or
\* errors in the manifest read or in the manifest built
RegistrationFailed(call) ==
    \/ call.ret.val.inner # "returned"
    \/ call.ret.val.read_errors # <<>>
    \/ call.ret.val.write_errors # <<>>

\* C24: when locating, reading or writing the manifest fails in
\* add_simularium_file_to_manifest, the call raises IOError and every file,
\* the manifest with its entries included, is as it was
C24_FailedRegistration ==
    [][\A s \in Services :
          (Registering(s) /\ RegistrationFailed(last'))
              => /\ last'.outcome = "IOError"
                 /\ fs' = fs]_vars

\* the step is a call of generate_simularium_file on instance s
Generating(s) == hist' # hist /\ hist'[Len(hist')].svc = s /\ last'.op = "generate_simularium_file"

\* the manifests of the directory, by path
ManifestsOf(files) == [fp \in { x \in DOMAIN files : files[x].kind = "manifest" } |-> files[fp]]

\* C26: generate_simularium_file in the JSON or the binary format on a target
\* that exists: with overwrite=False no file changes, the manifest included; with
\* overwrite=True a call that returns leaves the newly generated trajectory
\* at the target; and a manifest only changes in a call that leaves the
\* newly generated trajectory at the target
C26_Overwrite ==
    [][\A s \in Services :
          (Generating(s) /\ last'.ret.val.existed /\ last'.ret.val.io_format \in { "JSON", "binary" })
              => /\ ~last'.ret.val.overwrite => fs' = fs
                 /\ (last'.ret.val.overwrite /\ last'.outcome = "returned")
                       => /\ last'.ret.val.simularium_filename \in DOMAIN fs'
                          /\ fs'[last'.ret.val.simularium_filename] = DataFile("trajectory")
                 /\ ManifestsOf(fs') # ManifestsOf(fs)
                       => /\ last'.ret.val.simularium_filename \in DOMAIN fs'
                          /\ fs'[last'.ret.val.simularium_filename] = DataFile("trajectory")]_vars

\* the step is a call of get_manifest_filepath on instance s
Locates(s) == last' # last /\ last'.svc = s /\ last'.op = "get_manifest_filepath"

\* C29: after a call of get_manifest_filepath that returns, the key
\* 'manifest' of self.paths holds the path the call returned, and every
\* other key is as it was before the call
C29_ManifestKey ==
    [][\A s \in Services :
          (Locates(s) /\ last'.outcome = "returned")
              => /\ dict_has(svc'[s].paths, K_manifest)
                 /\ dict_get(svc'[s].paths, K_manifest) = last'.ret.val
                 /\ OtherKeys(svc'[s].paths) = OtherKeys(svc[s].paths)]_vars

(***************************************************************************)
(* Properties of the two tables of formats                                 *)
(***************************************************************************)
\* C27: CombineArchiveContentFormat and CombineArchiveContentFormatPattern
\* define the same names, and the identifier written for a name matches the
\* pattern of that name, so it resolves to some name when read back
C27_RegistryConsistent ==
    /\ member_names(CombineArchiveContentFormat) = member_names(CombineArchiveContentFormatPattern)
    /\ \A i \in 1..Len(calls) :
          /\ re_match(pattern_value(calls[i].member), calls[i].uri)
          /\ calls[i].name # None

(***************************************************************************)
(* Properties of coordinate interleaving                                   *)
(***************************************************************************)
\* C30: for coordinates below 2^32, bit 3*i + j of the id is bit i of the
\* j-th coordinate for every i < 32, id_to_coordinates gives the
\* coordinates back, and two different triples get different ids
C30_RoundTrip ==
    /\ \A n \in 1..Len(calls) :
          calls[n].op = "coordinates_to_id"
              => \A i \in 0..(CoordinateBits - 1), j \in 0..2 :
                     ((3 * i + j) \in calls[n].id) <=> (i \in calls[n].coordinates[j + 1])
    /\ Len(calls) = 2 => calls[2].coordinates = calls[1].coordinates
    /\ Len(calls) = 2 =>
          \A x \in CoordinateUniverse, y \in CoordinateUniverse, z \in CoordinateUniverse :
              <<x, y, z>> # calls[1].coordinates
                  => interleave_bits(calls[1].kind, <<x, y, z>>) # calls[1].id

(***************************************************************************)
(* Properties of verify_spatial_simulator_in_manifest                      *)
(***************************************************************************)
\* some entry of the manifest in proj has a format that contains 'smoldyn'
HasSmoldynEntry ==
    \E i \in 1..Len(fs[<<N_proj, N_manifest_xml>>].contents) :
        /\ fs[<<N_proj, N_manifest_xml>>].contents[i].format # None
        /\ contains(fs[<<N_proj, N_manifest_xml>>].contents[i].format[1], "smoldyn")

\* C25: on a manifest that is read without errors the call returns, and
\* returns true exactly when some entry of the manifest, at any position,
\* has a format that contains 'smoldyn'; entries with a null format and a
\* manifest without entries give false
C25_Verify ==
    (last.op = "verify_spatial_simulator_in_manifest" /\ last.ret.val.read_errors = <<>>)
        => /\ last.outcome = "returned"
           /\ last.ret.val.value = HasSmoldynEntry

====
